---- MODULE Spec2Model ----
(***************************************************************************)
(* Annotation lifecycle of the bias-indicator category of the editor:      *)
(* web/src/extensions/BiasDecorations.ts (LexiconDecorations.ts is the     *)
(* same engine over lexicon terms).  The stored collection                 *)
(* editor.storage.biasDecorations.indicators is replaced by the commands   *)
(* and re-derived by the plugin's apply() on every document edit.          *)
(***************************************************************************)
EXTENDS Integers, Sequences, FiniteSets, TLC

(* ------------------------------ bounds --------------------------------- *)
MaxDoc  == 3   \* largest doc.content.size explored
MaxCand == 2   \* longest candidate list handed to setBiasIndicators
MaxPos  == 1   \* largest start position a fresh candidate reports
MaxUid  == 2   \* number of distinct annotations created in one run
MaxList == 4   \* longest candidate list handed to limitIndicatorsByKey
MaxPerKey == 2 \* largest maxPerKey handed to limitIndicatorsByKey
MaxText == 4   \* longest text handed to findPhrasePositions
MaxPhrase == 2 \* longest phrase handed to findPhrasePositions
MaxRaw == 3    \* longest candidate list handed to addCharacterPositions
MaxLine == 3   \* longest text handed to addCharacterPositions
MaxFiltered == 2 \* longest candidate list handed to filterIndicatorsInText
MaxFetched == 5 \* longest candidate list a backend answers with
MaxMerged == 4 \* longest answer of a backend when both are merged

VARIABLES
  indicators,     \* editor.storage.biasDecorations.indicators
  decorationSet,  \* plugin state: the decorations currently drawn
  docSize,        \* tr.doc.content.size of the current document
  event,          \* 'biasIndicatorsUpdated' dispatched by the last step
  ret,            \* return value of the last command
  lastOp,         \* the last operation and its arguments; of a transaction
                  \* its step (edit) and its tr.selection
  nextUid,        \* identities handed to the annotations created so far
  maxAssigned,    \* history: the largest displayIndex handed out so far
  terms,                 \* editor.storage.lexiconDecorations.terms
  lexiconDecorationSet,  \* lexicon plugin state: the decorations drawn
  lexiconEvent,          \* 'lexiconTermsUpdated' dispatched by the last step
  call,           \* the invocation under study: a function and its arguments
  result,         \* what the invocation returned, once it has returned
  isLoading,      \* App: useState(false), true while an analysis is running
  biasIndicators, \* App: the bias indicators the cards are drawn from
  lexiconTerms,   \* App: the lexicon terms the cards are drawn from
  analysis        \* App: the promises of the handleAnalyze call in flight

lexiconVars == <<terms, lexiconDecorationSet, lexiconEvent>>
callVars == <<call, result>>
appVars == <<isLoading, biasIndicators, lexiconTerms, analysis>>

vars == <<indicators, decorationSet, docSize, event, ret, lastOp,
          nextUid, maxAssigned, terms, lexiconDecorationSet, lexiconEvent,
          call, result, isLoading, biasIndicators, lexiconTerms, analysis>>

(* ------------------------------ helpers -------------------------------- *)
Max(a, b) == IF a >= b THEN a ELSE b

\* the elements of s at the positions of keep, in order (Array.filter/splice)
RECURSIVE SelectIdx(_, _, _)
SelectIdx(s, keep, i) ==
  IF i > Len(s) THEN <<>>
  ELSE (IF i \in keep THEN <<s[i]>> ELSE <<>>) \o SelectIdx(s, keep, i + 1)

\* a BiasIndicator: uid stands for the object's payload (bias_indicator_key,
\* detected_phrase, confidence); displayIndex 0 is "absent"
BiasIndicator(u, s, e, d, o) ==
  [uid |-> u, start |-> s, end |-> e, displayIndex |-> d, outdated |-> o]

NoEvent == [fired |-> FALSE, indicators |-> <<>>]

\* no invocation is under study; an invocation that has not returned
NoCall == [function |-> "none"]
NoResult == [returned |-> FALSE]
Returned(value) == [returned |-> TRUE, value |-> value]

\* no handleAnalyze call in flight
NoAnalysis == [running |-> FALSE]

\* the App before its first analysis: the useState defaults
AppIdle ==
  /\ isLoading = FALSE
  /\ biasIndicators = <<>>
  /\ lexiconTerms = <<>>
  /\ analysis = NoAnalysis
CustomEvent(inds) == [fired |-> TRUE, indicators |-> inds]

(* --------------------- the editor's position mapping ------------------- *)
\* The document is one paragraph (StarterKit without the other blocks):
\* doc.content.size = text length + 2 and the text positions are 1..size-1.
MinDoc == 2

\* one keystroke: the characters [from, to) are deleted (ins = 0) or replaced
\* by the typed character (ins = 1)
Edits(size) ==
  {e \in [from : 1..(size - 1), to : 1..(size - 1), ins : {0, 1}] :
     /\ e.from <= e.to
     /\ ~(e.from = e.to /\ e.ins = 0)
     /\ size - (e.to - e.from) + e.ins <= MaxDoc}

NewDocSize(size, e) == size - (e.to - e.from) + e.ins

\* mapping.map(pos, assoc) of a transaction with the single step e
MapPos(pos, assoc, e) ==
  LET oldSize == e.to - e.from
      newSize == e.ins
  IN IF e.from > pos THEN pos
     ELSE IF pos <= e.to
          THEN LET side == IF oldSize = 0 THEN assoc
                           ELSE IF pos = e.from THEN -1
                           ELSE IF pos = e.to THEN 1
                           ELSE assoc
               IN e.from + (IF side < 0 THEN 0 ELSE newSize)
          ELSE pos + newSize - oldSize

\* tr.selection: a cursor in the text, or the whole document selected
Selections(size) ==
  {[from |-> p, to |-> p] : p \in 1..(size - 1)} \cup {[from |-> 0, to |-> size]}

(* ----------------------- helpers of the plugin ------------------------- *)
\* as mapIndicatorPositions, but the rebuilt object loses its outdated flag
mapIndicatorPositions_dropsOutdated(inds, e) ==
  LET mapped(ind) == [ind EXCEPT !.start = MapPos(ind.start, 1, e),
                                 !.end   = MapPos(ind.end, 1, e),
                                 !.outdated = FALSE]
  IN [indicators |-> [i \in 1..Len(inds) |-> mapped(inds[i])],
      changed    |-> \E i \in 1..Len(inds) :
                        \/ MapPos(inds[i].start, 1, e) # inds[i].start
                        \/ MapPos(inds[i].end, 1, e) # inds[i].end]

\* as mapIndicatorPositions, but the end follows the start: the span keeps
\* its length
mapIndicatorPositions_endFollowsStart(inds, e) ==
  LET newEnd(ind) == ind.end + (MapPos(ind.start, 1, e) - ind.start)
      mapped(ind) == [ind EXCEPT !.start = MapPos(ind.start, 1, e),
                                 !.end   = newEnd(ind)]
  IN [indicators |-> [i \in 1..Len(inds) |-> mapped(inds[i])],
      changed    |-> \E i \in 1..Len(inds) :
                        \/ MapPos(inds[i].start, 1, e) # inds[i].start
                        \/ newEnd(inds[i]) # inds[i].end]

mapIndicatorPositions(inds, e) ==
  LET mapped(ind) == [ind EXCEPT !.start = MapPos(ind.start, 1, e),
                                 !.end   = MapPos(ind.end, 1, e)]
  IN [indicators |-> [i \in 1..Len(inds) |-> mapped(inds[i])],
      changed    |-> \E i \in 1..Len(inds) :
                        \/ MapPos(inds[i].start, 1, e) # inds[i].start
                        \/ MapPos(inds[i].end, 1, e) # inds[i].end]

\* as removeEditedIndicators, but a cursor exactly at start counts as inside
removeEditedIndicators_inclusiveStart(inds, sel) ==
  IF sel.from # sel.to
  THEN [indicators |-> inds, changed |-> FALSE]
  ELSE LET indicatorsToOutdate ==
             {i \in 1..Len(inds) :
                sel.from >= inds[i].start /\ sel.from <= inds[i].end}
       IN IF indicatorsToOutdate = {}
          THEN [indicators |-> inds, changed |-> FALSE]
          ELSE [indicators |->
                  [i \in 1..Len(inds) |->
                     IF i \in indicatorsToOutdate
                     THEN [inds[i] EXCEPT !.outdated = TRUE]
                     ELSE inds[i]],
                changed |-> TRUE]

removeEditedIndicators(inds, sel) ==
  IF sel.from # sel.to
  THEN [indicators |-> inds, changed |-> FALSE]
  ELSE LET indicatorsToOutdate ==
             {i \in 1..Len(inds) :
                sel.from > inds[i].start /\ sel.from <= inds[i].end}
       IN IF indicatorsToOutdate = {}
          THEN [indicators |-> inds, changed |-> FALSE]
          ELSE [indicators |->
                  [i \in 1..Len(inds) |->
                     IF i \in indicatorsToOutdate
                     THEN [inds[i] EXCEPT !.outdated = TRUE]
                     ELSE inds[i]],
                changed |-> TRUE]

\* removeInvalidIndicators with the test `bad` in place of the source's
dropIndicators(inds, bad(_)) ==
  LET indicatorsToRemove == {i \in 1..Len(inds) : bad(inds[i])}
  IN IF indicatorsToRemove = {}
     THEN [indicators |-> inds, changed |-> FALSE]
     ELSE [indicators |->
             SelectIdx(inds, (1..Len(inds)) \ indicatorsToRemove, 1),
           changed |-> TRUE]

\* as removeInvalidIndicators, without the test end > docSize
removeInvalidIndicators_noDocSize(inds, size) ==
  LET bad(ind) == ind.start >= ind.end \/ ind.start < 1
  IN dropIndicators(inds, bad)

\* as removeInvalidIndicators, without the test start < 1
removeInvalidIndicators_noMinimum(inds, size) ==
  LET bad(ind) == ind.start >= ind.end \/ ind.end > size
  IN dropIndicators(inds, bad)

removeInvalidIndicators(inds, size) ==
  LET indicatorsToRemove ==
        {i \in 1..Len(inds) :
           inds[i].start >= inds[i].end \/ inds[i].start < 1
             \/ inds[i].end > size}
  IN IF indicatorsToRemove = {}
     THEN [indicators |-> inds, changed |-> FALSE]
     ELSE [indicators |->
             SelectIdx(inds, (1..Len(inds)) \ indicatorsToRemove, 1),
           changed |-> TRUE]

\* stable insertion of x into a sequence sorted by the field key
\* (Array.prototype.sort with the comparator a[key] - b[key])
RECURSIVE InsertBy(_, _, _)
InsertBy(s, x, key) ==
  IF s = <<>> THEN <<x>>
  ELSE IF s[Len(s)][key] <= x[key] THEN Append(s, x)
       ELSE Append(InsertBy(SubSeq(s, 1, Len(s) - 1), x, key), s[Len(s)])

RECURSIVE SortBy(_, _)
SortBy(s, key) ==
  IF s = <<>> THEN <<>>
  ELSE InsertBy(SortBy(SubSeq(s, 1, Len(s) - 1), key), s[Len(s)], key)

\* as createDecorations, without the filter on outdated
createDecorations_unfiltered(inds) ==
  LET sorted == SortBy(inds, "start")
  IN [i \in 1..Len(sorted) |->
        [uid |-> sorted[i].uid, from |-> sorted[i].start,
         to |-> sorted[i].end, displayIndex |-> sorted[i].displayIndex]]

\* one inline highlight plus its superscript marker per active indicator
\* (a stored indicator always has a displayIndex, so the marker shows it)
createDecorations(inds) ==
  LET active == SelectIdx(inds, {i \in 1..Len(inds) : ~inds[i].outdated}, 1)
      sorted == SortBy(active, "start")
  IN [i \in 1..Len(sorted) |->
        [uid |-> sorted[i].uid, from |-> sorted[i].start,
         to |-> sorted[i].end, displayIndex |-> sorted[i].displayIndex]]

\* prevPluginState.decorationSet.map(tr.mapping, tr.doc)
mappedDecorations(decos, e) ==
  LET m(d) == [d EXCEPT !.from = MapPos(d.from, 1, e),
                        !.to = MapPos(d.to, -1, e)]
  IN SelectIdx([i \in 1..Len(decos) |-> m(decos[i])],
               {i \in 1..Len(decos) :
                  MapPos(decos[i].from, 1, e) < MapPos(decos[i].to, -1, e)}, 1)

(* ------------------------------ Init ----------------------------------- *)
\* content: '' is one empty paragraph: doc.content.size = 2
Init ==
  /\ indicators = <<>>
  /\ decorationSet = <<>>
  /\ docSize = 2
  /\ event = NoEvent
  /\ ret = TRUE
  /\ lastOp = [op |-> "init"]
  /\ nextUid = 1
  /\ maxAssigned = 0
  /\ terms = <<>>
  /\ lexiconDecorationSet = <<>>
  /\ lexiconEvent = NoEvent
  /\ call = NoCall
  /\ result = NoResult
  /\ AppIdle

(* ---------------------- plugin state: apply(tr) ------------------------ *)
\* as Reconcile, but the outdate test runs first, on the stored spans
Reconcile_outdatesBeforeRemap(inds, e, sel, size) ==
  LET removalResult == removeEditedIndicators(inds, sel)
      mappingResult == mapIndicatorPositions(removalResult.indicators, e)
      invalidResult == removeInvalidIndicators(mappingResult.indicators, size)
  IN [indicators |-> invalidResult.indicators,
      changed |-> mappingResult.changed \/ removalResult.changed
                    \/ invalidResult.changed]

\* the three reconcile steps of a transaction with tr.docChanged
Reconcile(inds, e, sel, size) ==
  LET mappingResult == mapIndicatorPositions(inds, e)
      removalResult == removeEditedIndicators(mappingResult.indicators, sel)
      invalidResult == removeInvalidIndicators(removalResult.indicators, size)
  IN [indicators |-> invalidResult.indicators,
      changed |-> mappingResult.changed \/ removalResult.changed
                    \/ invalidResult.changed]

apply ==
  \E e \in Edits(docSize) :
    \E sel \in Selections(NewDocSize(docSize, e)) :
      \E size \in {NewDocSize(docSize, e)} :
      \E r \in {Reconcile(indicators, e, sel, size)} :
         /\ docSize' = size
         /\ IF r.changed
            THEN /\ indicators' = r.indicators
                 /\ event' = CustomEvent(r.indicators)
                 /\ decorationSet' = createDecorations(r.indicators)
            ELSE /\ indicators' = indicators
                 /\ event' = NoEvent
                 /\ decorationSet' = mappedDecorations(decorationSet, e)
         /\ ret' = TRUE
         /\ lastOp' = [op |-> "apply", edit |-> e, selection |-> sel]
         /\ maxAssigned' = maxAssigned
         /\ nextUid' = nextUid

(* ------------------------------ commands ------------------------------- *)
\* a candidate fresh from the analysis: no displayIndex, no outdated flag;
\* uid 0 until the call gives it an identity
FreshCandidates == {BiasIndicator(0, s, s + 1, 0, FALSE) : s \in 0..MaxPos}

\* candidate lists: candidates fresh from the analysis, alone or after the
\* stored list re-submitted as it is
CandidateLists ==
  {stored \o fresh :
     stored \in {<<>>, indicators},
     fresh \in UNION {[1..n -> FreshCandidates] : n \in 0..MaxCand}}

\* the k-th fresh candidate of the list is the annotation nextUid + k - 1
WithUids(c, first) ==
  [i \in 1..Len(c) |->
     IF c[i].uid # 0 THEN c[i]
     ELSE [c[i] EXCEPT
             !.uid = first + Cardinality({j \in 1..(i - 1) : c[j].uid = 0})]]

NumFresh(c) == Cardinality({i \in 1..Len(c) : c[i].uid = 0})

\* largest position a stored span may reach in the explored runs
PosCap == MaxPos + 2

\* currentIndicators.reduce((max, ind) => Math.max(max, ind.displayIndex || 0), 0)
RECURSIVE maxDisplayIndex(_)
maxDisplayIndex(inds) ==
  IF inds = <<>> THEN 0
  ELSE Max(maxDisplayIndex(Tail(inds)), Head(inds).displayIndex)

\* as adjustIndicators, but every candidate is numbered afresh
RECURSIVE adjustIndicators_renumbered(_, _, _)
adjustIndicators_renumbered(sorted, normalizeCharacterPositions, nextDisplayIndex) ==
  IF sorted = <<>> THEN <<>>
  ELSE LET indicator == Head(sorted)
           start == IF normalizeCharacterPositions
                    THEN (IF indicator.start = 0 THEN 1
                          ELSE indicator.start + 1)
                    ELSE indicator.start
           end == IF normalizeCharacterPositions
                  THEN Max(indicator.end + 1, start + 1)
                  ELSE indicator.end
       IN <<[indicator EXCEPT !.start = start, !.end = end,
                              !.displayIndex = nextDisplayIndex]>>
          \o adjustIndicators_renumbered(Tail(sorted),
                                         normalizeCharacterPositions,
                                         nextDisplayIndex + 1)

\* as adjustIndicators, but end is end + 1 without the Math.max
RECURSIVE adjustIndicators_noMax(_, _, _)
adjustIndicators_noMax(sorted, normalizeCharacterPositions, nextDisplayIndex) ==
  IF sorted = <<>> THEN <<>>
  ELSE LET indicator == Head(sorted)
           start == IF normalizeCharacterPositions
                    THEN (IF indicator.start = 0 THEN 1
                          ELSE indicator.start + 1)
                    ELSE indicator.start
           end == IF normalizeCharacterPositions
                  THEN indicator.end + 1
                  ELSE indicator.end
           displayIndex == IF indicator.displayIndex # 0
                           THEN indicator.displayIndex
                           ELSE nextDisplayIndex
           next == IF indicator.displayIndex # 0
                   THEN nextDisplayIndex
                   ELSE nextDisplayIndex + 1
       IN <<[indicator EXCEPT !.start = start, !.end = end,
                              !.displayIndex = displayIndex]>>
          \o adjustIndicators_noMax(Tail(sorted), normalizeCharacterPositions,
                                    next)

\* sortedIndicators.map(...) with the running nextDisplayIndex
RECURSIVE adjustIndicators(_, _, _)
adjustIndicators(sorted, normalizeCharacterPositions, nextDisplayIndex) ==
  IF sorted = <<>> THEN <<>>
  ELSE LET indicator == Head(sorted)
           start == IF normalizeCharacterPositions
                    THEN (IF indicator.start = 0 THEN 1
                          ELSE indicator.start + 1)
                    ELSE indicator.start
           end == IF normalizeCharacterPositions
                  THEN Max(indicator.end + 1, start + 1)
                  ELSE indicator.end
           displayIndex == IF indicator.displayIndex # 0
                           THEN indicator.displayIndex
                           ELSE nextDisplayIndex
           next == IF indicator.displayIndex # 0
                   THEN nextDisplayIndex
                   ELSE nextDisplayIndex + 1
       IN <<[indicator EXCEPT !.start = start, !.end = end,
                              !.displayIndex = displayIndex]>>
          \o adjustIndicators(Tail(sorted), normalizeCharacterPositions, next)

\* as adjustedIndicators, without the sort
adjustedIndicators_unsorted(stored, cands, normalizeCharacterPositions) ==
  adjustIndicators(cands, normalizeCharacterPositions, maxDisplayIndex(<<>>) + 1)

\* as adjustedIndicators, but the storage is not emptied and the result is
\* added to it
adjustedIndicators_appended(stored, cands, normalizeCharacterPositions) ==
  stored \o adjustIndicators(SortBy(cands, "end"), normalizeCharacterPositions,
                             maxDisplayIndex(stored) + 1)

\* the storage is emptied (line 332) before currentIndicators is read from it
adjustedIndicators(stored, cands, normalizeCharacterPositions) ==
  LET currentIndicators == <<>>
      sortedIndicators == SortBy(cands, "end")
  IN adjustIndicators(sortedIndicators, normalizeCharacterPositions,
                      maxDisplayIndex(currentIndicators) + 1)

SetIndicators(cands, normalize) ==
  \E adjusted \in {adjustedIndicators(indicators, cands, normalize)} :
     /\ \A i \in 1..Len(adjusted) :
          adjusted[i].start <= PosCap /\ adjusted[i].end <= PosCap
     /\ indicators' = adjusted
     /\ event' = CustomEvent(adjusted)
     /\ decorationSet' = createDecorations(adjusted)
     /\ ret' = TRUE
     /\ lastOp' = [op |-> "setBiasIndicators"]
     /\ maxAssigned' = Max(maxAssigned, maxDisplayIndex(adjusted))
     /\ UNCHANGED docSize

setBiasIndicators ==
  \E c \in CandidateLists, normalize \in BOOLEAN :
    /\ Len(c) <= MaxCand
    /\ nextUid + NumFresh(c) - 1 <= MaxUid
    /\ nextUid' = nextUid + NumFresh(c)
    /\ SetIndicators(WithUids(c, nextUid), normalize)

\* as handleMarkIndicatorOutdated, but re-submitted with the default
\* normalizeCharacterPositions = true
handleMarkIndicatorOutdated_normalized ==
  \E k \in 1..Len(indicators) :
    LET updatedIndicators ==
          [i \in 1..Len(indicators) |->
             IF i = k THEN [indicators[i] EXCEPT !.outdated = TRUE]
             ELSE indicators[i]]
    IN /\ SetIndicators(updatedIndicators, TRUE)
       /\ nextUid' = nextUid

\* App.handleMarkIndicatorOutdated: the stored list with one indicator
\* marked, re-submitted without normalisation
handleMarkIndicatorOutdated ==
  \E k \in 1..Len(indicators) :
    LET updatedIndicators ==
          [i \in 1..Len(indicators) |->
             IF i = k THEN [indicators[i] EXCEPT !.outdated = TRUE]
             ELSE indicators[i]]
    IN /\ SetIndicators(updatedIndicators, FALSE)
       /\ nextUid' = nextUid

clearBiasIndicators ==
  /\ indicators' = <<>>
  /\ event' = CustomEvent(<<>>)
  /\ decorationSet' = createDecorations(<<>>)
  /\ ret' = TRUE
  /\ lastOp' = [op |-> "clearBiasIndicators"]
  /\ UNCHANGED <<docSize, nextUid, maxAssigned>>

\* as removeBiasIndicator, with the bounds check index <= length
removeBiasIndicator_inclusiveBound ==
  \E index \in -1..Len(indicators) :
    /\ lastOp' = [op |-> "removeBiasIndicator", index |-> index]
    /\ IF index >= 0 /\ index <= Len(indicators)
       THEN LET spliced ==
                  SelectIdx(indicators, (1..Len(indicators)) \ {index + 1}, 1)
            IN /\ indicators' = spliced
               /\ event' = CustomEvent(spliced)
               /\ decorationSet' = createDecorations(spliced)
               /\ ret' = TRUE
       ELSE /\ event' = NoEvent
            /\ ret' = FALSE
            /\ UNCHANGED <<indicators, decorationSet>>
    /\ UNCHANGED <<docSize, nextUid, maxAssigned>>

\* as removeBiasIndicator, with splice(index) in place of splice(index, 1)
removeBiasIndicator_spliceToEnd ==
  \E index \in -1..Len(indicators) :
    /\ lastOp' = [op |-> "removeBiasIndicator", index |-> index]
    /\ IF index >= 0 /\ index < Len(indicators)
       THEN LET spliced == SelectIdx(indicators, 1..index, 1)
            IN /\ indicators' = spliced
               /\ event' = CustomEvent(spliced)
               /\ decorationSet' = createDecorations(spliced)
               /\ ret' = TRUE
       ELSE /\ event' = NoEvent
            /\ ret' = FALSE
            /\ UNCHANGED <<indicators, decorationSet>>
    /\ UNCHANGED <<docSize, nextUid, maxAssigned>>

removeBiasIndicator ==
  \E index \in -1..Len(indicators) :
    /\ lastOp' = [op |-> "removeBiasIndicator", index |-> index]
    /\ IF index >= 0 /\ index < Len(indicators)
       THEN LET spliced ==
                  SelectIdx(indicators, (1..Len(indicators)) \ {index + 1}, 1)
            IN /\ indicators' = spliced
               /\ event' = CustomEvent(spliced)
               /\ decorationSet' = createDecorations(spliced)
               /\ ret' = TRUE
       ELSE /\ event' = NoEvent
            /\ ret' = FALSE
            /\ UNCHANGED <<indicators, decorationSet>>
    /\ UNCHANGED <<docSize, nextUid, maxAssigned>>

\* as indicatorsAtPosition, with the start of the span exclusive
indicatorsAtPosition_exclusiveStart(inds, position) ==
  {i \in 1..Len(inds) :
     position > inds[i].start /\ position <= inds[i].end}

\* as indicatorsAtPosition, with the end of the span exclusive
indicatorsAtPosition_exclusiveEnd(inds, position) ==
  {i \in 1..Len(inds) :
     position >= inds[i].start /\ position < inds[i].end}

\* the indices the backwards loop splices out
indicatorsAtPosition(inds, position) ==
  {i \in 1..Len(inds) :
     position >= inds[i].start /\ position <= inds[i].end}

removeBiasIndicatorAtPosition ==
  \E position \in 0..docSize :
    LET hit == indicatorsAtPosition(indicators, position)
        spliced == SelectIdx(indicators, (1..Len(indicators)) \ hit, 1)
    IN /\ lastOp' = [op |-> "removeBiasIndicatorAtPosition",
                     position |-> position]
       /\ IF hit # {}
          THEN /\ indicators' = spliced
               /\ event' = CustomEvent(spliced)
               /\ decorationSet' = createDecorations(spliced)
               /\ ret' = TRUE
          ELSE /\ event' = NoEvent
               /\ ret' = FALSE
               /\ UNCHANGED <<indicators, decorationSet>>
       /\ UNCHANGED <<docSize, nextUid, maxAssigned>>

(* --------------------------- lexicon category -------------------------- *)
\* LexiconDecorations.ts is BiasDecorations.ts over terms, setLexiconTerms
\* apart: a LexiconTerm has the fields of a BiasIndicator, uid standing for
\* its payload (word, definition, usage_example)
mapTermPositions(ts, e) == mapIndicatorPositions(ts, e)
removeEditedTerms(ts, sel) == removeEditedIndicators(ts, sel)
removeInvalidTerms(ts, size) == removeInvalidIndicators(ts, size)
createTermDecorations(ts) == createDecorations(ts)

\* as applyTerms, but the lexicon plugin does not see the edit
applyTerms_notForwarded ==
  /\ terms' = terms
  /\ lexiconEvent' = NoEvent
  /\ lexiconDecorationSet' = lexiconDecorationSet

\* the lexicon plugin's apply on a transaction with tr.docChanged: the step
\* and the selection are those the bias plugin saw
applyTerms ==
  \E e \in {lastOp'.edit}, sel \in {lastOp'.selection}, size \in {docSize'} :
    LET mappingResult == mapTermPositions(terms, e)
        removalResult == removeEditedTerms(mappingResult.indicators, sel)
        invalidResult == removeInvalidTerms(removalResult.indicators, size)
        termsChanged == mappingResult.changed \/ removalResult.changed
                          \/ invalidResult.changed
    IN IF termsChanged
       THEN /\ terms' = invalidResult.indicators
            /\ lexiconEvent' = CustomEvent(invalidResult.indicators)
            /\ lexiconDecorationSet' =
                  createTermDecorations(invalidResult.indicators)
       ELSE /\ terms' = terms
            /\ lexiconEvent' = NoEvent
            /\ lexiconDecorationSet' = mappedDecorations(lexiconDecorationSet, e)

\* the lexicon plugin's apply on the transaction of a bias command: no meta
\* under lexiconDecorationsKey and no step, the decorations map onto themselves
passTerms ==
  /\ terms' = terms
  /\ lexiconEvent' = NoEvent
  /\ lexiconDecorationSet' = lexiconDecorationSet

\* the bias plugin's apply on the transaction of a lexicon command
passIndicators ==
  /\ indicators' = indicators
  /\ event' = NoEvent
  /\ decorationSet' = decorationSet
  /\ UNCHANGED <<docSize, maxAssigned>>

\* the session in which only the bias category is used: the lexicon
\* collection stays empty, and its plugin's apply finds nothing to reconcile
\* and nothing to notify
Next ==
  \/ apply /\ UNCHANGED <<lexiconVars, callVars, appVars>>
  \/ setBiasIndicators /\ UNCHANGED <<lexiconVars, callVars, appVars>>
  \/ handleMarkIndicatorOutdated /\ UNCHANGED <<lexiconVars, callVars, appVars>>
  \/ clearBiasIndicators /\ UNCHANGED <<lexiconVars, callVars, appVars>>
  \/ removeBiasIndicator /\ UNCHANGED <<lexiconVars, callVars, appVars>>
  \/ removeBiasIndicatorAtPosition /\ UNCHANGED <<lexiconVars, callVars, appVars>>

Spec == Init /\ [][Next]_vars

TypeOK ==
  /\ docSize \in MinDoc..MaxDoc
  /\ nextUid \in 1..(MaxUid + 1)
  /\ Len(indicators) <= MaxCand
  /\ \A i \in 1..Len(indicators) : indicators[i].displayIndex >= 1

(* ------------- the set and clear commands on any candidate list -------- *)
\* terms.map(...): the candidates in the order submitted, always normalised;
\* the storage is emptied (line 330) before currentTerms is read from it
adjustedTerms(cands) ==
  LET currentTerms == <<>>
  IN adjustIndicators(cands, TRUE, maxDisplayIndex(currentTerms) + 1)

SetTerms(cands) ==
  LET adjusted == adjustedTerms(cands)
  IN /\ terms' = adjusted
     /\ lexiconEvent' = CustomEvent(adjusted)
     /\ lexiconDecorationSet' = createTermDecorations(adjusted)
     /\ ret' = TRUE
     /\ lastOp' = [op |-> "setLexiconTerms"]

clearLexiconTerms ==
  /\ terms' = <<>>
  /\ lexiconEvent' = CustomEvent(<<>>)
  /\ lexiconDecorationSet' = createTermDecorations(<<>>)
  /\ ret' = TRUE
  /\ lastOp' = [op |-> "clearLexiconTerms"]
  /\ UNCHANGED nextUid

\* a candidate as a caller may submit it: any span, end before start
\* included, with a displayIndex or without
Candidates ==
  {BiasIndicator(0, s, e, d, FALSE) :
     s \in 0..MaxPos, e \in 0..(MaxPos + 1), d \in {0, 1}}

Submissions == UNION {[1..n -> Candidates] : n \in 0..MaxCand}

SetCalls ==
  {[function |-> "setBiasIndicators", candidates |-> c, normalize |-> n] :
     c \in Submissions, n \in BOOLEAN}
  \cup {[function |-> "setLexiconTerms", candidates |-> c] : c \in Submissions}
  \cup {[function |-> "clearBiasIndicators"], [function |-> "clearLexiconTerms"]}

\* what a category holds when the command is issued: nothing, or what an
\* earlier set command with the one candidate {start 0, end 1} left
Stored == {<<>>, <<BiasIndicator(1, 1, 2, 1, FALSE)>>}

InitSet ==
  \E prior \in Stored, c \in SetCalls :
    /\ indicators = prior
    /\ decorationSet = createDecorations(prior)
    /\ docSize = MaxDoc
    /\ event = NoEvent
    /\ ret = TRUE
    /\ lastOp = [op |-> "init"]
    /\ nextUid = Len(prior) + 1
    /\ maxAssigned = maxDisplayIndex(prior)
    /\ terms = prior
    /\ lexiconDecorationSet = createTermDecorations(prior)
    /\ lexiconEvent = NoEvent
    /\ call = c
    /\ result = NoResult
    /\ AppIdle

callSetBiasIndicators ==
  /\ call.function = "setBiasIndicators"
  /\ ~result.returned
  /\ SetIndicators(WithUids(call.candidates, nextUid), call.normalize)
  /\ nextUid' = nextUid + Len(call.candidates)
  /\ passTerms
  /\ result' = Returned(ret')
  /\ UNCHANGED <<call, appVars>>

callSetLexiconTerms ==
  /\ call.function = "setLexiconTerms"
  /\ ~result.returned
  /\ SetTerms(WithUids(call.candidates, nextUid))
  /\ nextUid' = nextUid + Len(call.candidates)
  /\ passIndicators
  /\ result' = Returned(ret')
  /\ UNCHANGED <<call, appVars>>

callClearBiasIndicators ==
  /\ call.function = "clearBiasIndicators"
  /\ ~result.returned
  /\ clearBiasIndicators
  /\ passTerms
  /\ result' = Returned(ret')
  /\ UNCHANGED <<call, appVars>>

callClearLexiconTerms ==
  /\ call.function = "clearLexiconTerms"
  /\ ~result.returned
  /\ clearLexiconTerms
  /\ passIndicators
  /\ result' = Returned(ret')
  /\ UNCHANGED <<call, appVars>>

NextSet ==
  \/ callSetBiasIndicators
  \/ callSetLexiconTerms
  \/ callClearBiasIndicators
  \/ callClearLexiconTerms

SpecSet == InitSet /\ [][NextSet]_vars

(* ----------------- one session with both categories ------------------- *)
removeLexiconTerm ==
  \E index \in -1..Len(terms) :
    /\ lastOp' = [op |-> "removeLexiconTerm", index |-> index]
    /\ IF index >= 0 /\ index < Len(terms)
       THEN LET spliced == SelectIdx(terms, (1..Len(terms)) \ {index + 1}, 1)
            IN /\ terms' = spliced
               /\ lexiconEvent' = CustomEvent(spliced)
               /\ lexiconDecorationSet' = createTermDecorations(spliced)
               /\ ret' = TRUE
       ELSE /\ lexiconEvent' = NoEvent
            /\ ret' = FALSE
            /\ UNCHANGED <<terms, lexiconDecorationSet>>
    /\ UNCHANGED nextUid

removeLexiconTermAtPosition ==
  \E position \in 0..docSize :
    LET hit == indicatorsAtPosition(terms, position)
        spliced == SelectIdx(terms, (1..Len(terms)) \ hit, 1)
    IN /\ lastOp' = [op |-> "removeLexiconTermAtPosition",
                     position |-> position]
       /\ IF hit # {}
          THEN /\ terms' = spliced
               /\ lexiconEvent' = CustomEvent(spliced)
               /\ lexiconDecorationSet' = createTermDecorations(spliced)
               /\ ret' = TRUE
          ELSE /\ lexiconEvent' = NoEvent
               /\ ret' = FALSE
               /\ UNCHANGED <<terms, lexiconDecorationSet>>
       /\ UNCHANGED nextUid

\* editor.commands.setBiasIndicators([c]) with one candidate fresh from the
\* analysis
setOneBiasIndicator ==
  \E c \in FreshCandidates :
    /\ nextUid <= MaxUid
    /\ nextUid' = nextUid + 1
    /\ SetIndicators(WithUids(<<c>>, nextUid), TRUE)

\* editor.commands.setLexiconTerms([c]) with one term fresh from the analysis
setOneLexiconTerm ==
  \E c \in FreshCandidates :
    /\ nextUid <= MaxUid
    /\ nextUid' = nextUid + 1
    /\ SetTerms(WithUids(<<c>>, nextUid))

\* every transaction goes through the apply of both plugins
NextSession ==
  \/ apply /\ applyTerms /\ UNCHANGED <<callVars, appVars>>
  \/ setOneBiasIndicator /\ passTerms /\ UNCHANGED <<callVars, appVars>>
  \/ clearBiasIndicators /\ passTerms /\ UNCHANGED <<callVars, appVars>>
  \/ removeBiasIndicator /\ passTerms /\ UNCHANGED <<callVars, appVars>>
  \/ removeBiasIndicatorAtPosition /\ passTerms /\ UNCHANGED <<callVars, appVars>>
  \/ setOneLexiconTerm /\ passIndicators /\ UNCHANGED <<callVars, appVars>>
  \/ clearLexiconTerms /\ passIndicators /\ UNCHANGED <<callVars, appVars>>
  \/ removeLexiconTerm /\ passIndicators /\ UNCHANGED <<callVars, appVars>>
  \/ removeLexiconTermAtPosition /\ passIndicators /\ UNCHANGED <<callVars, appVars>>

SpecSession == Init /\ [][NextSession]_vars

(* --------- one transaction carrying a step and a bias command ---------- *)
\* A command receives the transaction it is run in ({ editor, tr }) and marks
\* it with setMeta (lines 376-379, 399-402, 431-434); in a chain that
\* transaction also holds a step. The command has rewritten the storage when
\* the transaction is dispatched, and apply takes the branch of line 263,
\* which returns before the reconcile block of line 272.
applyWithMeta(e, stored) ==
  /\ docSize' = NewDocSize(docSize, e)
  /\ indicators' = stored
  /\ event' = CustomEvent(stored)
  /\ decorationSet' = createDecorations(stored)
  /\ ret' = TRUE

\* chain().<edit>.removeBiasIndicator(index).run() with a valid index
chainRemoveBiasIndicator ==
  \E e \in Edits(docSize), index \in 0..(Len(indicators) - 1) :
    /\ applyWithMeta(e, SelectIdx(indicators,
                                  (1..Len(indicators)) \ {index + 1}, 1))
    /\ lastOp' = [op |-> "removeBiasIndicator", index |-> index, edit |-> e]
    /\ UNCHANGED <<nextUid, maxAssigned>>

\* chain().<edit>.clearBiasIndicators().run()
chainClearBiasIndicators ==
  \E e \in Edits(docSize) :
    /\ applyWithMeta(e, <<>>)
    /\ lastOp' = [op |-> "clearBiasIndicators", edit |-> e]
    /\ UNCHANGED <<nextUid, maxAssigned>>

\* chain().<edit>.setBiasIndicators(list, false).run(), list being the stored
\* collection, candidates fresh from the analysis, or both
chainSetBiasIndicators ==
  \E e \in Edits(docSize), c \in CandidateLists :
    LET adjusted == adjustedIndicators(indicators, WithUids(c, nextUid), FALSE)
    IN /\ Len(c) <= MaxCand
       /\ nextUid + NumFresh(c) - 1 <= MaxUid
       /\ \A i \in 1..Len(adjusted) :
            adjusted[i].start <= PosCap /\ adjusted[i].end <= PosCap
       /\ applyWithMeta(e, adjusted)
       /\ lastOp' = [op |-> "setBiasIndicators", edit |-> e]
       /\ nextUid' = nextUid + NumFresh(c)
       /\ maxAssigned' = Max(maxAssigned, maxDisplayIndex(adjusted))

NextChain ==
  \/ apply /\ UNCHANGED <<lexiconVars, callVars, appVars>>
  \/ setOneBiasIndicator /\ UNCHANGED <<lexiconVars, callVars, appVars>>
  \/ chainRemoveBiasIndicator /\ UNCHANGED <<lexiconVars, callVars, appVars>>
  \/ chainClearBiasIndicators /\ UNCHANGED <<lexiconVars, callVars, appVars>>
  \/ chainSetBiasIndicators /\ UNCHANGED <<lexiconVars, callVars, appVars>>

SpecChain == Init /\ [][NextChain]_vars

(* ------------- one edit on collections of any spans -------------------- *)
\* a candidate as a caller may submit it: a span of one or two characters or
\* of as many as the longest document, in the document or beyond it, active
\* or carrying outdated: true
SpanCandidates ==
  {BiasIndicator(0, s, s + n, 0, o) :
     s \in 0..MaxPos, n \in {1, 2, MaxDoc}, o \in BOOLEAN}

SpanLists(longest) == UNION {[1..n -> SpanCandidates] : n \in 0..longest}

ApplyCall(inds, ts) == [function |-> "apply", indicators |-> inds, terms |-> ts]

\* the editor after setBiasIndicators(c, false) and setLexiconTerms(c) on a
\* document of any size; call keeps the two collections the edit will find
InitReconcile ==
  \E c \in SpanLists(MaxCand), size \in MinDoc..MaxDoc :
    LET sorted == WithUids(SortBy(c, "end"), 1)
        inds == adjustedIndicators(<<>>, sorted, FALSE)
        ts == adjustedTerms(sorted)
    IN /\ indicators = inds
       /\ decorationSet = createDecorations(inds)
       /\ docSize = size
       /\ event = NoEvent
       /\ ret = TRUE
       /\ lastOp = [op |-> "init"]
       /\ nextUid = Len(c) + 1
       /\ maxAssigned = maxDisplayIndex(inds)
       /\ terms = ts
       /\ lexiconDecorationSet = createTermDecorations(ts)
       /\ lexiconEvent = NoEvent
       /\ call = ApplyCall(inds, ts)
       /\ result = NoResult
       /\ AppIdle

\* one transaction with tr.docChanged, seen by the apply of both plugins
callApply ==
  /\ call.function = "apply"
  /\ ~result.returned
  /\ apply
  /\ applyTerms
  /\ result' = Returned(TRUE)
  /\ UNCHANGED <<call, appVars>>

\* the remove button of a card, before or after the edit; call keeps the
\* collection the handler found in the storage
callHandleMarkIndicatorOutdated ==
  /\ call.function = "apply"
  /\ handleMarkIndicatorOutdated
  /\ passTerms
  /\ call' = [function |-> "handleMarkIndicatorOutdated",
              indicators |-> indicators]
  /\ result' = Returned(TRUE)
  /\ UNCHANGED appVars

NextReconcile ==
  \/ callApply
  \/ callHandleMarkIndicatorOutdated

SpecReconcile == InitReconcile /\ [][NextReconcile]_vars

(* ------------------------------ the App -------------------------------- *)
\* one of the three promises of handleAnalyze, its .catch included: pending,
\* or settled with the list it resolves to, [] when the request failed
Pending == [settled |-> FALSE]
Settled(value) == [settled |-> TRUE, value |-> value]

\* what a backend answers for a text of len characters: no candidate, or the
\* first character of the text
Results(len) ==
  {<<>>} \cup {<<c>> : c \in {f \in FreshCandidates : f.start = 0 /\ f.end <= len}}

\* TextEditor's listener of 'biasIndicatorsUpdated': onBiasIndicatorsUpdate is
\* the App's setBiasIndicators
handleBiasIndicatorsUpdated ==
  biasIndicators' = IF event'.fired THEN event'.indicators ELSE biasIndicators

\* TextEditor's listener of 'lexiconTermsUpdated'
handleLexiconTermsUpdated ==
  lexiconTerms' = IF lexiconEvent'.fired THEN lexiconEvent'.indicators
                  ELSE lexiconTerms

\* a transaction with tr.docChanged: typing, or the setContent of a PDF that
\* has finished loading; the editor is editable whatever isLoading is
editDocument ==
  /\ apply
  /\ applyTerms
  /\ handleBiasIndicatorsUpdated
  /\ handleLexiconTermsUpdated
  /\ UNCHANGED <<callVars, isLoading, analysis>>

\* the analyze button: disabled={isLoading || !editor.getText().trim()};
\* explored while annotations are left to create
handleAnalyze ==
  /\ ~isLoading
  /\ docSize > MinDoc
  /\ nextUid <= MaxUid
  /\ isLoading' = TRUE
  /\ biasIndicators' = <<>>
  /\ lexiconTerms' = <<>>
  /\ analysis' = [running |-> TRUE,
                  plainText |-> docSize - MinDoc,
                  indicatorsPromise |-> Pending,
                  llmIndicatorsPromise |-> Pending,
                  lexiconTermsPromise |-> Pending]
  /\ event' = NoEvent
  /\ lexiconEvent' = NoEvent
  /\ lastOp' = [op |-> "handleAnalyze"]
  /\ UNCHANGED <<indicators, decorationSet, docSize, ret, nextUid, maxAssigned,
                 terms, lexiconDecorationSet, callVars>>

\* the candidates the settled promises hold
Fetched(a) ==
  (IF a.indicatorsPromise.settled THEN a.indicatorsPromise.value ELSE <<>>)
    \o (IF a.llmIndicatorsPromise.settled THEN a.llmIndicatorsPromise.value
        ELSE <<>>)
    \o (IF a.lexiconTermsPromise.settled THEN a.lexiconTermsPromise.value
        ELSE <<>>)

\* as settle, but a request that fails leaves its promise unsettled
settle_withoutCatch(promise) ==
  /\ analysis.running
  /\ ~analysis[promise].settled
  /\ \E value \in Results(analysis.plainText), failed \in BOOLEAN :
       /\ failed => value = <<>>
       /\ nextUid + Len(Fetched(analysis)) + Len(value) - 1 <= MaxUid
       /\ analysis' = IF failed THEN analysis
                    ELSE [analysis EXCEPT ![promise] = Settled(value)]
       /\ lastOp' = [op |-> "settle", promise |-> promise, failed |-> failed]
  /\ event' = NoEvent
  /\ lexiconEvent' = NoEvent
  /\ UNCHANGED <<indicators, decorationSet, docSize, ret, nextUid, maxAssigned,
                 terms, lexiconDecorationSet, callVars, isLoading,
                 biasIndicators, lexiconTerms>>

\* the request behind promise answers, or fails and its .catch returns []
settle(promise) ==
  /\ analysis.running
  /\ ~analysis[promise].settled
  /\ \E value \in Results(analysis.plainText), failed \in BOOLEAN :
       /\ failed => value = <<>>
       /\ nextUid + Len(Fetched(analysis)) + Len(value) - 1 <= MaxUid
       /\ analysis' = [analysis EXCEPT ![promise] = Settled(value)]
       /\ lastOp' = [op |-> "settle", promise |-> promise, failed |-> failed]
  /\ event' = NoEvent
  /\ lexiconEvent' = NoEvent
  /\ UNCHANGED <<indicators, decorationSet, docSize, ret, nextUid, maxAssigned,
                 terms, lexiconDecorationSet, callVars, isLoading,
                 biasIndicators, lexiconTerms>>

settleIndicatorsPromise == settle("indicatorsPromise")
settleLlmIndicatorsPromise == settle("llmIndicatorsPromise")
settleLexiconTermsPromise == settle("lexiconTermsPromise")

\* as thenPromiseAll, but the lists still shown are not replaced when the
\* analysis found nothing
thenPromiseAll_keepsWhenEmpty ==
  /\ analysis.running
  /\ analysis.indicatorsPromise.settled
  /\ analysis.llmIndicatorsPromise.settled
  /\ analysis.lexiconTermsPromise.settled
  /\ LET found == WithUids(analysis.indicatorsPromise.value
                             \o analysis.llmIndicatorsPromise.value, nextUid)
         foundTerms == WithUids(analysis.lexiconTermsPromise.value,
                                nextUid + Len(found))
     IN \E adjusted \in {IF found = <<>> THEN indicators
                         ELSE adjustedIndicators(indicators, found, TRUE)},
           adjustedT \in {IF foundTerms = <<>> THEN terms
                          ELSE adjustedTerms(foundTerms)} :
        /\ indicators' = adjusted
        /\ event' = IF found = <<>> THEN NoEvent ELSE CustomEvent(adjusted)
        /\ decorationSet' = createDecorations(adjusted)
        /\ maxAssigned' = Max(maxAssigned, maxDisplayIndex(adjusted))
        /\ terms' = adjustedT
        /\ lexiconEvent' = IF foundTerms = <<>> THEN NoEvent
                           ELSE CustomEvent(adjustedT)
        /\ lexiconDecorationSet' = createTermDecorations(adjustedT)
        /\ nextUid' = nextUid + Len(found) + Len(foundTerms)
  /\ handleBiasIndicatorsUpdated
  /\ handleLexiconTermsUpdated
  /\ isLoading' = FALSE
  /\ analysis' = NoAnalysis
  /\ ret' = TRUE
  /\ lastOp' = [op |-> "then"]
  /\ UNCHANGED <<docSize, callVars>>

\* Promise.all([...]).then(...): the two set commands, then setIsLoading(false)
thenPromiseAll ==
  /\ analysis.running
  /\ analysis.indicatorsPromise.settled
  /\ analysis.llmIndicatorsPromise.settled
  /\ analysis.lexiconTermsPromise.settled
  /\ LET found == WithUids(analysis.indicatorsPromise.value
                             \o analysis.llmIndicatorsPromise.value, nextUid)
         foundTerms == WithUids(analysis.lexiconTermsPromise.value,
                                nextUid + Len(found))
     IN \E adjusted \in {adjustedIndicators(indicators, found, TRUE)},
           adjustedT \in {adjustedTerms(foundTerms)} :
        /\ indicators' = adjusted
        /\ event' = CustomEvent(adjusted)
        /\ decorationSet' = createDecorations(adjusted)
        /\ maxAssigned' = Max(maxAssigned, maxDisplayIndex(adjusted))
        /\ terms' = adjustedT
        /\ lexiconEvent' = CustomEvent(adjustedT)
        /\ lexiconDecorationSet' = createTermDecorations(adjustedT)
        /\ nextUid' = nextUid + Len(found) + Len(foundTerms)
  /\ handleBiasIndicatorsUpdated
  /\ handleLexiconTermsUpdated
  /\ isLoading' = FALSE
  /\ analysis' = NoAnalysis
  /\ ret' = TRUE
  /\ lastOp' = [op |-> "then"]
  /\ UNCHANGED <<docSize, callVars>>

\* the clear button: clearContent(), setBiasIndicators([]), setLexiconTerms([])
handleClearClick ==
  /\ ~isLoading
  /\ docSize > MinDoc
  /\ docSize' = MinDoc
  /\ indicators' = <<>>
  /\ event' = CustomEvent(<<>>)
  /\ decorationSet' = createDecorations(<<>>)
  /\ terms' = <<>>
  /\ lexiconEvent' = CustomEvent(<<>>)
  /\ lexiconDecorationSet' = createTermDecorations(<<>>)
  /\ handleBiasIndicatorsUpdated
  /\ handleLexiconTermsUpdated
  /\ ret' = TRUE
  /\ lastOp' = [op |-> "handleClearClick"]
  /\ UNCHANGED <<nextUid, maxAssigned, callVars, isLoading, analysis>>

\* the remove button of the card drawn for biasIndicators[k]
handleRemoveClick ==
  \E k \in 1..Len(biasIndicators) :
    LET indicator == biasIndicators[k]
        updatedIndicators ==
          [i \in 1..Len(indicators) |->
             IF indicators[i] = indicator
             THEN [indicators[i] EXCEPT !.outdated = TRUE]
             ELSE indicators[i]]
    IN /\ SetIndicators(updatedIndicators, FALSE)
       /\ passTerms
       /\ handleBiasIndicatorsUpdated
       /\ handleLexiconTermsUpdated
       /\ UNCHANGED <<nextUid, callVars, isLoading, analysis>>

NextApp ==
  \/ editDocument
  \/ handleAnalyze
  \/ settleIndicatorsPromise
  \/ settleLlmIndicatorsPromise
  \/ settleLexiconTermsPromise
  \/ thenPromiseAll
  \/ handleClearClick
  \/ handleRemoveClick

SpecApp == Init /\ [][NextApp]_vars

\* every request settles, and the callback of a fulfilled Promise.all runs
SpecAppFair ==
  /\ SpecApp
  /\ WF_vars(settleIndicatorsPromise)
  /\ WF_vars(settleLlmIndicatorsPromise)
  /\ WF_vars(settleLexiconTermsPromise)
  /\ WF_vars(thenPromiseAll)

(* ------------------- services/analysisHelpers.ts ---------------------- *)
\* a RawBiasIndicator: detected_phrase stands for the whole payload
RawBiasIndicator(k, p) == [bias_indicator_key |-> k, detected_phrase |-> p]

\* category keys; "7" is a key that is an array index, which an object lists
\* before its other keys
Keys == {"sarcasm", "passiveVoice", "7"}
IntegerLike == {"7"}

\* keysToLimit: undefined, or an array of keys
Undefined == [defined |-> FALSE]
Array(keys) == [defined |-> TRUE, keys |-> keys]

\* as keysSetOf, but an empty keysToLimit limits no key
keysSetOf_emptyLimitsNone(inds, keysToLimit) ==
  IF keysToLimit.defined
  THEN {keysToLimit.keys[i] : i \in 1..Len(keysToLimit.keys)}
  ELSE {inds[i].bias_indicator_key : i \in 1..Len(inds)}

\* keysToLimit && keysToLimit.length > 0 ? new Set(keysToLimit) : new Set(...)
keysSetOf(inds, keysToLimit) ==
  IF keysToLimit.defined /\ Len(keysToLimit.keys) > 0
  THEN {keysToLimit.keys[i] : i \in 1..Len(keysToLimit.keys)}
  ELSE {inds[i].bias_indicator_key : i \in 1..Len(inds)}

\* as slice, but the element at index n is included
slice_inclusive(group, n) ==
  SubSeq(group, 1, IF n + 1 <= Len(group) THEN n + 1 ELSE Len(group))

\* as slice, but starting at index 1: group.slice(1, n + 1)
slice_fromOne(group, n) ==
  SubSeq(group, 2, IF n + 1 <= Len(group) THEN n + 1 ELSE Len(group))

\* group.slice(0, n) for n >= 0
slice(group, n) == SubSeq(group, 1, IF n <= Len(group) THEN n ELSE Len(group))

\* the keys of the accumulator of the reduce, in the order they were added
RECURSIVE insertionOrder(_)
insertionOrder(toLimit) ==
  IF toLimit = <<>> THEN <<>>
  ELSE LET acc == insertionOrder(SubSeq(toLimit, 1, Len(toLimit) - 1))
           key == toLimit[Len(toLimit)].bias_indicator_key
       IN IF \E i \in 1..Len(acc) : acc[i] = key THEN acc
          ELSE Append(acc, key)

\* the order in which Object.values lists the groups: array-index keys
\* first, then the other keys in the order they were added
objectKeys(toLimit) ==
  LET added == insertionOrder(toLimit)
  IN SelectIdx(added, {i \in 1..Len(added) : added[i] \in IntegerLike}, 1)
     \o SelectIdx(added, {i \in 1..Len(added) : added[i] \notin IntegerLike}, 1)

\* groups.flatMap(group => group): groups is a function from keys
RECURSIVE flatMap(_, _)
flatMap(keys, groups) ==
  IF keys = <<>> THEN <<>>
  ELSE groups[Head(keys)] \o flatMap(Tail(keys), groups)

\* as limitIndicatorsByKey, with the candidates of the other keys returned
\* before the limited ones
limitIndicatorsByKey_othersFirst(inds, keysToLimit, maxPerKey) ==
  LET keysSet == keysSetOf(inds, keysToLimit)
      toLimit == SelectIdx(inds,
                   {i \in 1..Len(inds) :
                      inds[i].bias_indicator_key \in keysSet}, 1)
      others == SelectIdx(inds,
                  {i \in 1..Len(inds) :
                     inds[i].bias_indicator_key \notin keysSet}, 1)
      grouped == [key \in Keys |->
                    SelectIdx(toLimit,
                      {i \in 1..Len(toLimit) :
                         toLimit[i].bias_indicator_key = key}, 1)]
      sliced == [key \in Keys |-> slice(grouped[key], maxPerKey)]
  IN others \o flatMap(objectKeys(toLimit), sliced)

limitIndicatorsByKey(inds, keysToLimit, maxPerKey) ==
  LET keysSet == keysSetOf(inds, keysToLimit)
      toLimit == SelectIdx(inds,
                   {i \in 1..Len(inds) :
                      inds[i].bias_indicator_key \in keysSet}, 1)
      others == SelectIdx(inds,
                  {i \in 1..Len(inds) :
                     inds[i].bias_indicator_key \notin keysSet}, 1)
      grouped == [key \in Keys |->
                    SelectIdx(toLimit,
                      {i \in 1..Len(toLimit) :
                         toLimit[i].bias_indicator_key = key}, 1)]
      sliced == [key \in Keys |-> slice(grouped[key], maxPerKey)]
  IN flatMap(objectKeys(toLimit), sliced) \o others

\* candidate lists: any keys in any order, the i-th candidate with payload i
RawLists ==
  {[i \in 1..Len(ks) |-> RawBiasIndicator(ks[i], i)] :
     ks \in UNION {[1..n -> Keys] : n \in 0..MaxList}}

KeyLists ==
  {Undefined, Array(<<>>)}
  \cup {Array(<<k>>) : k \in Keys}
  \cup {Array(<<k1, k2>>) : k1 \in Keys, k2 \in Keys}

LimitCalls ==
  {[function |-> "limitIndicatorsByKey", indicators |-> c,
    keysToLimit |-> ks, maxPerKey |-> m] :
     c \in RawLists, ks \in KeyLists, m \in 0..MaxPerKey}

InitLimit ==
  /\ indicators = <<>>
  /\ decorationSet = <<>>
  /\ docSize = MinDoc
  /\ event = NoEvent
  /\ ret = TRUE
  /\ lastOp = [op |-> "init"]
  /\ nextUid = 1
  /\ maxAssigned = 0
  /\ terms = <<>>
  /\ lexiconDecorationSet = <<>>
  /\ lexiconEvent = NoEvent
  /\ call \in LimitCalls
  /\ result = NoResult
  /\ AppIdle

callLimitIndicatorsByKey ==
  /\ call.function = "limitIndicatorsByKey"
  /\ ~result.returned
  /\ result' = Returned(limitIndicatorsByKey(call.indicators, call.keysToLimit,
                                             call.maxPerKey))
  /\ UNCHANGED <<indicators, decorationSet, docSize, event, ret, lastOp,
                 nextUid, maxAssigned, lexiconVars, appVars, call>>

\* the caller passes the list it got back through the function once more,
\* with the same keysToLimit and maxPerKey
callLimitIndicatorsByKeyAgain ==
  /\ call.function = "limitIndicatorsByKey"
  /\ result.returned
  /\ "again" \notin DOMAIN result
  /\ result' = [returned |-> TRUE, value |-> result.value,
                again |-> limitIndicatorsByKey(result.value, call.keysToLimit,
                                               call.maxPerKey)]
  /\ UNCHANGED <<indicators, decorationSet, docSize, event, ret, lastOp,
                 nextUid, maxAssigned, lexiconVars, appVars, call>>

NextLimit ==
  \/ callLimitIndicatorsByKey
  \/ callLimitIndicatorsByKeyAgain

SpecLimit == InitLimit /\ [][NextLimit]_vars

(* ---------- services/analysisHelpers.ts: findPhrasePositions ---------- *)
\* a string is the sequence of its characters; positions are 0-based offsets
\* as in the code, so text[i + 1] is the character at offset i
Alphabet == {"a", "A", " ", "!"}

\* \w of a RegExp without the u flag: [A-Za-z0-9_]
WordChars == {"a", "A", "c", "n", "o", "r", "s", "t", "u", "_"}
\* the characters String.prototype.trim removes
WhiteSpace == {" "}

\* Canonicalize of the i flag: the character's upper case
canonicalize(c) == IF c = "a" THEN "A" ELSE c

\* String.prototype.toLowerCase
toLowerCase(str) == [i \in 1..Len(str) |-> IF str[i] = "A" THEN "a" ELSE str[i]]

\* !phrase || phrase.trim() === ''
isBlank(phrase) == \A i \in 1..Len(phrase) : phrase[i] \in WhiteSpace

\* as matchesAt, without the lookbehind (?<!\w)
matchesAt_noLookbehind(text, phrase, at) ==
  /\ at + Len(phrase) <= Len(text)
  /\ \A j \in 1..Len(phrase) :
       canonicalize(text[at + j]) = canonicalize(phrase[j])
  /\ (at + Len(phrase) < Len(text)
        => text[at + Len(phrase) + 1] \notin WordChars)

\* whether (?<!\w)escapedPhrase(?!\w) with the i flag matches at offset
\* `at`; the escaped phrase matches the characters of the phrase literally
matchesAt(text, phrase, at) ==
  /\ at + Len(phrase) <= Len(text)
  /\ (at > 0 => text[at] \notin WordChars)
  /\ \A j \in 1..Len(phrase) :
       canonicalize(text[at + j]) = canonicalize(phrase[j])
  /\ (at + Len(phrase) < Len(text)
        => text[at + Len(phrase) + 1] \notin WordChars)

\* as exec, but the search resumes one character after the start of the
\* match it found, not at its end
RECURSIVE exec_resumeAfterStart(_, _, _)
exec_resumeAfterStart(text, phrase, lastIndex) ==
  LET hits == {at \in lastIndex..Len(text) : matchesAt(text, phrase, at)}
  IN IF hits = {} THEN <<>>
     ELSE LET index == CHOOSE at \in hits : \A other \in hits : at <= other
          IN <<[start |-> index, end |-> index + Len(phrase)]>>
             \o exec_resumeAfterStart(text, phrase, index + 1)

\* the while loop over regex.exec with the g flag: the leftmost match at or
\* after lastIndex, then the search resumes at the end of that match
RECURSIVE exec(_, _, _)
exec(text, phrase, lastIndex) ==
  LET hits == {at \in lastIndex..Len(text) : matchesAt(text, phrase, at)}
  IN IF hits = {} THEN <<>>
     ELSE LET index == CHOOSE at \in hits : \A other \in hits : at <= other
          IN <<[start |-> index, end |-> index + Len(phrase)]>>
             \o exec(text, phrase, index + Len(phrase))

\* as findPhrasePositions, with the guard `!phrase` only: a phrase made of
\* whitespace is searched for
findPhrasePositions_noTrim(text, phrase) ==
  IF phrase = <<>> THEN <<>> ELSE exec(text, phrase, 0)

findPhrasePositions(text, phrase) ==
  IF isBlank(phrase) THEN <<>> ELSE exec(text, phrase, 0)

Strings(longest) == UNION {[1..n -> Alphabet] : n \in 0..longest}

LocateCall(t, p) == [function |-> "findPhrasePositions", text |-> t, phrase |-> p]

InitLocate ==
  /\ indicators = <<>>
  /\ decorationSet = <<>>
  /\ docSize = MinDoc
  /\ event = NoEvent
  /\ ret = TRUE
  /\ lastOp = [op |-> "init"]
  /\ nextUid = 1
  /\ maxAssigned = 0
  /\ terms = <<>>
  /\ lexiconDecorationSet = <<>>
  /\ lexiconEvent = NoEvent
  /\ \E t \in Strings(MaxText), p \in Strings(MaxPhrase) :
       call = LocateCall(t, p)
  /\ result = NoResult
  /\ AppIdle

callFindPhrasePositions ==
  /\ call.function = "findPhrasePositions"
  /\ ~result.returned
  /\ result' = Returned(findPhrasePositions(call.text, call.phrase))
  /\ UNCHANGED <<indicators, decorationSet, docSize, event, ret, lastOp,
                 nextUid, maxAssigned, lexiconVars, appVars, call>>

NextLocate == callFindPhrasePositions

SpecLocate == InitLocate /\ [][NextLocate]_vars

(* --------- services/analysisHelpers.ts: addCharacterPositions --------- *)
\* a candidate as the backend sends it: character_positions is optional, and
\* confidence stands for the rest of the payload
RawIndicator(k, p, c) ==
  [bias_indicator_key |-> k, detected_phrase |-> p, confidence |-> c]
WithPositions(ind, positions) ==
  [f \in DOMAIN ind \cup {"character_positions"} |->
     IF f = "character_positions" THEN positions ELSE ind[f]]

\* 'character_positions' in indicator && indicator.character_positions
hasPositions(ind) ==
  "character_positions" \in DOMAIN ind /\ ind.character_positions # Undefined

\* the values a property of phraseOccurrenceCount can hold
Number(n) == [type |-> "number", value |-> n]
NaN == [type |-> "NaN"]
\* a property that {} inherits from Object.prototype: a function or an object
Inherited == [type |-> "object"]
ObjectPrototypeKeys ==
  {<<"c", "o", "n", "s", "t", "r", "u", "c", "t", "o", "r">>,
   <<"_", "_", "p", "r", "o", "t", "o", "_", "_">>}

\* obj[key] of an object created as {}
get(obj, key) ==
  IF key \in DOMAIN obj THEN obj[key]
  ELSE IF key \in ObjectPrototypeKeys THEN Inherited
  ELSE Undefined

\* obj[key] = value; the setter of __proto__ ignores a value that is not an
\* object and keeps the prototype when handed the prototype
put(obj, key, value) ==
  IF key = <<"_", "_", "p", "r", "o", "t", "o", "_", "_">> THEN obj
  ELSE [k \in DOMAIN obj \cup {key} |-> IF k = key THEN value ELSE obj[k]]

\* value || 0
orZero(value) ==
  IF value \in {Undefined, NaN, Number(0)} THEN Number(0) ELSE value

\* Math.min(value, n) for a number n
mathMin(value, n) ==
  IF value.type = "number"
  THEN Number(IF value.value <= n THEN value.value ELSE n)
  ELSE NaN

\* value + 1 of the ++ operator
increment(value) ==
  IF value.type = "number" THEN Number(value.value + 1) ELSE NaN

\* positions[index]
elementAt(positions, index) ==
  IF index.type = "number" /\ index.value >= 0 /\ index.value < Len(positions)
  THEN positions[index.value + 1]
  ELSE Undefined

\* as positioned, but a candidate that arrives with a span advances the
\* occurrence counter of its phrase
positioned_countsGiven(indicator, text, phraseOccurrenceCount) ==
  IF hasPositions(indicator)
  THEN [out |-> WithPositions(indicator, indicator.character_positions),
        count |-> put(phraseOccurrenceCount,
                      toLowerCase(indicator.detected_phrase),
                      increment(orZero(get(phraseOccurrenceCount,
                                  toLowerCase(indicator.detected_phrase)))))]
  ELSE
    LET positions == findPhrasePositions(text, indicator.detected_phrase)
        phrase == toLowerCase(indicator.detected_phrase)
        seen == put(phraseOccurrenceCount, phrase,
                    orZero(get(phraseOccurrenceCount, phrase)))
        positionIndex == mathMin(get(seen, phrase), Len(positions) - 1)
        counted == put(seen, phrase, increment(get(seen, phrase)))
        length == Len(indicator.detected_phrase)
    IN IF Len(positions) > 0
       THEN [out |-> WithPositions(indicator,
                                   elementAt(positions, positionIndex)),
             count |-> counted]
       ELSE [out |-> WithPositions(indicator,
                       [start |-> 0,
                        end |-> IF length >= 1 THEN length ELSE 1]),
             count |-> phraseOccurrenceCount]

\* as positioned, but the fallback span ends at the phrase's length
positioned_noMax(indicator, text, phraseOccurrenceCount) ==
  IF hasPositions(indicator)
  THEN [out |-> WithPositions(indicator, indicator.character_positions),
        count |-> phraseOccurrenceCount]
  ELSE
    LET positions == findPhrasePositions(text, indicator.detected_phrase)
        phrase == toLowerCase(indicator.detected_phrase)
        seen == put(phraseOccurrenceCount, phrase,
                    orZero(get(phraseOccurrenceCount, phrase)))
        positionIndex == mathMin(get(seen, phrase), Len(positions) - 1)
        counted == put(seen, phrase, increment(get(seen, phrase)))
        length == Len(indicator.detected_phrase)
    IN IF Len(positions) > 0
       THEN [out |-> WithPositions(indicator,
                                   elementAt(positions, positionIndex)),
             count |-> counted]
       ELSE [out |-> WithPositions(indicator,
                       [start |-> 0,
                        end |-> length]),
             count |-> phraseOccurrenceCount]

\* the callback of indicators.map for one indicator: the indicator with its
\* character_positions, and phraseOccurrenceCount as the callback leaves it
positioned(indicator, text, phraseOccurrenceCount) ==
  IF hasPositions(indicator)
  THEN [out |-> WithPositions(indicator, indicator.character_positions),
        count |-> phraseOccurrenceCount]
  ELSE
    LET positions == findPhrasePositions(text, indicator.detected_phrase)
        phrase == toLowerCase(indicator.detected_phrase)
        seen == put(phraseOccurrenceCount, phrase,
                    orZero(get(phraseOccurrenceCount, phrase)))
        positionIndex == mathMin(get(seen, phrase), Len(positions) - 1)
        counted == put(seen, phrase, increment(get(seen, phrase)))
        length == Len(indicator.detected_phrase)
    IN IF Len(positions) > 0
       THEN [out |-> WithPositions(indicator,
                                   elementAt(positions, positionIndex)),
             count |-> counted]
       ELSE [out |-> WithPositions(indicator,
                       [start |-> 0,
                        end |-> IF length >= 1 THEN length ELSE 1]),
             count |-> phraseOccurrenceCount]

\* indicators.map(...) from the left, handing phraseOccurrenceCount on
RECURSIVE mapPositioned(_, _, _)
mapPositioned(inds, text, phraseOccurrenceCount) ==
  IF inds = <<>> THEN <<>>
  ELSE LET first == positioned(Head(inds), text, phraseOccurrenceCount)
       IN <<first.out>> \o mapPositioned(Tail(inds), text, first.count)

addCharacterPositions(inds, text) == mapPositioned(inds, text, <<>>)

\* texts and phrases of the calls explored: words of "a" in either case, and
\* the one word that names a property of Object.prototype
Lines(longest) == UNION {[1..n -> {"a", " "}] : n \in 0..longest}
Phrases == {<<"a">>, <<"A">>, <<"a", "a">>}
Constructor == <<"c", "o", "n", "s", "t", "r", "u", "c", "t", "o", "r">>
\* the spans a candidate can arrive with: none, one that fits the text "a",
\* one that lies outside every text explored
GivenPositions == {[start |-> 0, end |-> 1], [start |-> 7, end |-> 9]}
PositionKeys == {"sarcasm", "7"}

\* candidates without a span, under either key; one with an empty phrase;
\* candidates that arrive with a span
RawCandidates ==
  {RawIndicator(k, p, 0) : k \in PositionKeys, p \in Phrases}
  \cup {RawIndicator("sarcasm", <<>>, 0)}
  \cup {WithPositions(RawIndicator("sarcasm", <<"a">>, 0), g) :
          g \in GivenPositions}

\* candidate lists; the i-th candidate carries i as its payload
Tagged(list) == [i \in 1..Len(list) |-> [list[i] EXCEPT !.confidence = i]]
RawCandidateLists(longest) ==
  {Tagged(list) : list \in UNION {[1..n -> RawCandidates] : n \in 0..longest}}
ConstructorLists(longest) ==
  {Tagged(list) :
     list \in UNION {[1..n -> {RawIndicator("sarcasm", Constructor, 0)}] :
                       n \in 1..longest}}

PositionCall(c, t) ==
  [function |-> "addCharacterPositions", indicators |-> c, text |-> t]

InitPositions ==
  /\ indicators = <<>>
  /\ decorationSet = <<>>
  /\ docSize = MinDoc
  /\ event = NoEvent
  /\ ret = TRUE
  /\ lastOp = [op |-> "init"]
  /\ nextUid = 1
  /\ maxAssigned = 0
  /\ terms = <<>>
  /\ lexiconDecorationSet = <<>>
  /\ lexiconEvent = NoEvent
  /\ \/ \E c \in RawCandidateLists(MaxRaw), t \in Lines(MaxLine) :
          call = PositionCall(c, t)
     \/ \E c \in ConstructorLists(MaxRaw) :
          call = PositionCall(c, Constructor \o <<" ">> \o Constructor)
  /\ result = NoResult
  /\ AppIdle

callAddCharacterPositions ==
  /\ call.function = "addCharacterPositions"
  /\ ~result.returned
  /\ result' = Returned(addCharacterPositions(call.indicators, call.text))
  /\ UNCHANGED <<indicators, decorationSet, docSize, event, ret, lastOp,
                 nextUid, maxAssigned, lexiconVars, appVars, call>>

NextPositions == callAddCharacterPositions

SpecPositions == InitPositions /\ [][NextPositions]_vars

(* --------- services/analysisHelpers.ts: filterIndicatorsInText -------- *)
\* as includes, but the phrase has to stand in the text as
\* findPhrasePositions finds it, between non-word characters
includes_atWordBoundary(str, searchString) ==
  \E at \in 0..(Len(str) - Len(searchString)) :
    matchesAt(str, searchString, at)

\* String.prototype.includes
includes(str, searchString) ==
  \E at \in 0..(Len(str) - Len(searchString)) :
    SubSeq(str, at + 1, at + Len(searchString)) = searchString

\* the predicate of indicators.filter
keptInText(indicator, text) ==
  IF hasPositions(indicator) THEN TRUE
  ELSE IF isBlank(indicator.detected_phrase) THEN FALSE
  ELSE includes(toLowerCase(text), toLowerCase(indicator.detected_phrase))

filterIndicatorsInText(inds, text) ==
  SelectIdx(inds, {i \in 1..Len(inds) : keptInText(inds[i], text)}, 1)

\* candidates with a phrase of whitespace only, next to those of
\* addCharacterPositions
FilterCandidates == RawCandidates \cup {RawIndicator("sarcasm", <<" ">>, 0)}
FilterCandidateLists(longest) ==
  {Tagged(list) :
     list \in UNION {[1..n -> FilterCandidates] : n \in 0..longest}}
MixedLines(longest) == UNION {[1..n -> {"a", "A", " "}] : n \in 0..longest}

FilterCall(c, t) ==
  [function |-> "filterIndicatorsInText", indicators |-> c, text |-> t]

InitFilter ==
  /\ indicators = <<>>
  /\ decorationSet = <<>>
  /\ docSize = MinDoc
  /\ event = NoEvent
  /\ ret = TRUE
  /\ lastOp = [op |-> "init"]
  /\ nextUid = 1
  /\ maxAssigned = 0
  /\ terms = <<>>
  /\ lexiconDecorationSet = <<>>
  /\ lexiconEvent = NoEvent
  /\ \E c \in FilterCandidateLists(MaxFiltered), t \in MixedLines(MaxLine) :
       call = FilterCall(c, t)
  /\ result = NoResult
  /\ AppIdle

callFilterIndicatorsInText ==
  /\ call.function = "filterIndicatorsInText"
  /\ ~result.returned
  /\ result' = Returned(filterIndicatorsInText(call.indicators, call.text))
  /\ UNCHANGED <<indicators, decorationSet, docSize, event, ret, lastOp,
                 nextUid, maxAssigned, lexiconVars, appVars, call>>

\* "Filter first, then add positions": the caller hands the filtered list
\* and the same text to addCharacterPositions
callAddCharacterPositionsOfFiltered ==
  /\ call.function = "filterIndicatorsInText"
  /\ result.returned
  /\ "positioned" \notin DOMAIN result
  /\ result' = [returned |-> TRUE, value |-> result.value,
                positioned |-> addCharacterPositions(result.value, call.text)]
  /\ UNCHANGED <<indicators, decorationSet, docSize, event, ret, lastOp,
                 nextUid, maxAssigned, lexiconVars, appVars, call>>

NextFilter ==
  \/ callFilterIndicatorsInText
  \/ callAddCharacterPositionsOfFiltered

SpecFilter == InitFilter /\ [][NextFilter]_vars

(* ------ services/biasAnalysis.ts, analyzeLLMIndicators: pipelines ------ *)
\* the maxPerKey both pipelines pass to limitIndicatorsByKey
PerKeyLimit == 3

\* [...new Set(filteredBiasIndicators.map(ind => ind.bias_indicator_key))]
allIndicatorKeys(inds) == insertionOrder(inds)

\* what a backend answers with: candidates without spans
FetchedCandidates ==
  {RawIndicator(k, p, 0) : k \in PositionKeys, p \in {<<"a">>, <<"a", "a">>}}
FetchedLists(longest) ==
  {Tagged(list) :
     list \in UNION {[1..n -> FetchedCandidates] : n \in 0..longest}}

AnalysisCall(f, t, c) == [function |-> f, text |-> t, rawData |-> c]

InitAnalysis ==
  /\ indicators = <<>>
  /\ decorationSet = <<>>
  /\ docSize = MinDoc
  /\ event = NoEvent
  /\ ret = TRUE
  /\ lastOp = [op |-> "init"]
  /\ nextUid = 1
  /\ maxAssigned = 0
  /\ terms = <<>>
  /\ lexiconDecorationSet = <<>>
  /\ lexiconEvent = NoEvent
  /\ \E f \in {"analyzeBiasIndicators", "analyzeLLMIndicators"},
        t \in Lines(MaxLine), c \in FetchedLists(MaxFetched) :
       call = AnalysisCall(f, t, c)
  /\ result = NoResult
  /\ AppIdle

\* analyzeBiasIndicators: const finalData = limitIndicatorsByKey(rawData, ...)
limitRawData ==
  /\ call.function = "analyzeBiasIndicators"
  /\ result = NoResult
  /\ result' = [returned |-> FALSE,
                finalData |->
                  limitIndicatorsByKey(call.rawData,
                                       Array(<<"sarcasm", "passiveVoice">>),
                                       PerKeyLimit)]
  /\ UNCHANGED <<indicators, decorationSet, docSize, event, ret, lastOp,
                 nextUid, maxAssigned, lexiconVars, appVars, call>>

\* analyzeBiasIndicators: return addCharacterPositions(finalData, text)
positionFinalData ==
  /\ call.function = "analyzeBiasIndicators"
  /\ ~result.returned
  /\ "finalData" \in DOMAIN result
  /\ result' = Returned(addCharacterPositions(result.finalData, call.text))
  /\ UNCHANGED <<indicators, decorationSet, docSize, event, ret, lastOp,
                 nextUid, maxAssigned, lexiconVars, appVars, call>>

\* analyzeLLMIndicators: const filteredBiasIndicators = ...
filterRawData ==
  /\ call.function = "analyzeLLMIndicators"
  /\ result = NoResult
  /\ result' = [returned |-> FALSE,
                filteredBiasIndicators |->
                  filterIndicatorsInText(call.rawData, call.text)]
  /\ UNCHANGED <<indicators, decorationSet, docSize, event, ret, lastOp,
                 nextUid, maxAssigned, lexiconVars, appVars, call>>

\* analyzeLLMIndicators: const limitedBiasIndicators = ...
limitFiltered ==
  /\ call.function = "analyzeLLMIndicators"
  /\ ~result.returned
  /\ "filteredBiasIndicators" \in DOMAIN result
  /\ result' = [returned |-> FALSE,
                limitedBiasIndicators |->
                  limitIndicatorsByKey(
                    result.filteredBiasIndicators,
                    Array(allIndicatorKeys(result.filteredBiasIndicators)),
                    PerKeyLimit)]
  /\ UNCHANGED <<indicators, decorationSet, docSize, event, ret, lastOp,
                 nextUid, maxAssigned, lexiconVars, appVars, call>>

\* analyzeLLMIndicators: indicators: addCharacterPositions(limited..., text)
positionLimited ==
  /\ call.function = "analyzeLLMIndicators"
  /\ ~result.returned
  /\ "limitedBiasIndicators" \in DOMAIN result
  /\ result' = Returned(addCharacterPositions(result.limitedBiasIndicators,
                                              call.text))
  /\ UNCHANGED <<indicators, decorationSet, docSize, event, ret, lastOp,
                 nextUid, maxAssigned, lexiconVars, appVars, call>>

NextAnalysis ==
  \/ limitRawData
  \/ positionFinalData
  \/ filterRawData
  \/ limitFiltered
  \/ positionLimited

SpecAnalysis == InitAnalysis /\ [][NextAnalysis]_vars

(* ------- App.handleAnalyze: the two bias pipelines, then the set ------- *)
\* analyzeBiasIndicators(plainText, ...) on the answer rawData
analyzeBiasIndicators(rawData, text) ==
  LET finalData ==
        limitIndicatorsByKey(rawData, Array(<<"sarcasm", "passiveVoice">>),
                             PerKeyLimit)
  IN addCharacterPositions(finalData, text)

\* analyzeLLMIndicators(plainText, ...).indicators on the answer rawData
analyzeLLMIndicators(rawData, text) ==
  LET filteredBiasIndicators == filterIndicatorsInText(rawData, text)
      limitedBiasIndicators ==
        limitIndicatorsByKey(filteredBiasIndicators,
                             Array(allIndicatorKeys(filteredBiasIndicators)),
                             PerKeyLimit)
  IN addCharacterPositions(limitedBiasIndicators, text)

\* the answers explored: candidates for the phrase "a" under either key, and
\* the texts "a", "a a" and " "
MergeCandidates == {RawIndicator(k, <<"a">>, 0) : k \in PositionKeys}
MergeLists(longest) ==
  {Tagged(list) :
     list \in UNION {[1..n -> MergeCandidates] : n \in 0..longest}}
MergeTexts == {<<"a">>, <<"a", " ", "a">>, <<" ">>}

MergeCall(t, c, l) ==
  [function |-> "handleAnalyze", text |-> t, rawData |-> c, llmRawData |-> l]

\* the object the command stores for a candidate of the analysis
AsBiasIndicator(ind) ==
  BiasIndicator(RawIndicator(ind.bias_indicator_key, ind.detected_phrase,
                             ind.confidence),
                ind.character_positions.start, ind.character_positions.end,
                0, FALSE)

\* result with one more property
With(r, field, value) ==
  [f \in DOMAIN r \cup {field} |-> IF f = field THEN value ELSE r[f]]

InitMerge ==
  /\ indicators = <<>>
  /\ decorationSet = <<>>
  /\ event = NoEvent
  /\ ret = TRUE
  /\ lastOp = [op |-> "init"]
  /\ nextUid = 1
  /\ maxAssigned = 0
  /\ terms = <<>>
  /\ lexiconDecorationSet = <<>>
  /\ lexiconEvent = NoEvent
  /\ \E t \in MergeTexts, c \in MergeLists(MaxMerged),
        l \in MergeLists(MaxMerged) :
       /\ call = MergeCall(t, c, l)
       /\ docSize = Len(t) + MinDoc
  /\ result = NoResult
  /\ AppIdle

\* indicatorsPromise resolves
resolveIndicatorsPromise ==
  /\ call.function = "handleAnalyze"
  /\ "indicators" \notin DOMAIN result
  /\ result' = With(result, "indicators",
                    analyzeBiasIndicators(call.rawData, call.text))
  /\ UNCHANGED <<indicators, decorationSet, docSize, event, ret, lastOp,
                 nextUid, maxAssigned, lexiconVars, appVars, call>>

\* llmIndicatorsPromise resolves
resolveLlmIndicatorsPromise ==
  /\ call.function = "handleAnalyze"
  /\ "llmResult" \notin DOMAIN result
  /\ result' = With(result, "llmResult",
                    [indicators |->
                       analyzeLLMIndicators(call.llmRawData, call.text)])
  /\ UNCHANGED <<indicators, decorationSet, docSize, event, ret, lastOp,
                 nextUid, maxAssigned, lexiconVars, appVars, call>>

\* editor.commands.setBiasIndicators([...indicators, ...llmResult.indicators])
setMergedBiasIndicators ==
  /\ call.function = "handleAnalyze"
  /\ ~result.returned
  /\ "indicators" \in DOMAIN result
  /\ "llmResult" \in DOMAIN result
  /\ LET merged == result.indicators \o result.llmResult.indicators
         cands == [i \in 1..Len(merged) |-> AsBiasIndicator(merged[i])]
     IN \E adjusted \in {adjustedIndicators(indicators, cands, TRUE)} :
          /\ indicators' = adjusted
          /\ event' = CustomEvent(adjusted)
          /\ decorationSet' = createDecorations(adjusted)
          /\ maxAssigned' = Max(maxAssigned, maxDisplayIndex(adjusted))
          /\ result' = [result EXCEPT !.returned = TRUE]
  /\ ret' = TRUE
  /\ lastOp' = [op |-> "setBiasIndicators"]
  /\ UNCHANGED <<docSize, nextUid, lexiconVars, appVars, call>>

NextMerge ==
  \/ resolveIndicatorsPromise
  \/ resolveLlmIndicatorsPromise
  \/ setMergedBiasIndicators

SpecMerge == InitMerge /\ [][NextMerge]_vars

(* ============================== claims ================================= *)
Idx(inds) == 1..Len(inds)
Uids(inds) == {inds[i].uid : i \in Idx(inds)}
InRange(ind, size) == 0 <= ind.start /\ ind.start < ind.end /\ ind.end <= size
ActiveInRange(inds, size) ==
  \A i \in Idx(inds) : ~inds[i].outdated => InRange(inds[i], size)
RemovalOps ==
  {"clearBiasIndicators", "removeBiasIndicator", "removeBiasIndicatorAtPosition"}

\* C1 (as claimed): in every reachable state every stored annotation that is
\* not outdated satisfies 0 <= start < end <= document size.
C1_ActiveAlwaysInRange == ActiveInRange(indicators, docSize)

\* C1 (amended): every stored annotation that is not outdated satisfies
\* 0 <= start < end <= document size after every reconcile pass, and clear,
\* removeAt and removeAtDocumentPosition keep it so; setAnnotations stores
\* the submitted spans without checking them against the document.
C1_InRangeAfterReconcile ==
  [][ /\ lastOp'.op = "apply" => ActiveInRange(indicators', docSize')
      /\ (lastOp'.op \in RemovalOps /\ ActiveInRange(indicators, docSize))
           => ActiveInRange(indicators', docSize') ]_vars

\* an edit dropped an annotation and kept an active one ending at the
\* document's end
C1_Witness ==
  /\ lastOp.op = "apply"
  /\ event.fired
  /\ Len(indicators) < nextUid - 1
  /\ \E i \in Idx(indicators) :
       ~indicators[i].outdated /\ indicators[i].end = docSize

\* C2: the next-display-index counter only increases: an annotation new to
\* the session gets a display index above every index handed out before,
\* so no index is ever assigned to a second annotation.
C2_IndexNeverReassigned ==
  [][ \A j \in Idx(indicators') :
        indicators'[j].uid >= nextUid
          => indicators'[j].displayIndex > maxAssigned ]_vars

\* C3: an annotation keeps the display index it was given for as long as it
\* is in the collection, through reconcile, removals and re-submission.
C3_DisplayIndexStable ==
  [][ \A i \in Idx(indicators), j \in Idx(indicators') :
        indicators[i].uid = indicators'[j].uid
          => indicators[i].displayIndex = indicators'[j].displayIndex ]_vars

\* the annotation numbered 2 was re-submitted alone and is still numbered 2
C3_Witness ==
  /\ lastOp.op = "setBiasIndicators"
  /\ Len(indicators) = 1
  /\ indicators[1].displayIndex = 2

\* the span of ind after the edit e, start and end mapped independently
Remapped(ind, e) ==
  [start |-> MapPos(ind.start, 1, e), end |-> MapPos(ind.end, 1, e)]
Invalid(span, size) ==
  span.start >= span.end \/ span.start < 1 \/ span.end > size
CursorInside(span, sel) ==
  sel.from = sel.to /\ span.start < sel.from /\ sel.from <= span.end

\* C4: in a reconcile pass an active annotation is marked outdated exactly
\* when the post-edit selection is a cursor p with start < p <= end on the
\* remapped span; it stays in the collection unless the pass invalidates it.
C4_OutdatedIffCursorInside ==
  [][ lastOp'.op = "apply" =>
        \A i \in Idx(indicators) :
          LET a == indicators[i]
              span == Remapped(a, lastOp'.edit)
          IN ~a.outdated =>
               IF Invalid(span, docSize')
               THEN a.uid \notin Uids(indicators')
               ELSE \E j \in Idx(indicators') :
                      /\ indicators'[j].uid = a.uid
                      /\ indicators'[j].start = span.start
                      /\ indicators'[j].end = span.end
                      /\ indicators'[j].outdated = CursorInside(span, lastOp'.selection)
    ]_vars

\* after an edit the cursor sits at the end of an outdated annotation and at
\* the start of one that is still active
C4_Witness ==
  /\ lastOp.op = "apply"
  /\ event.fired
  /\ lastOp.selection.from = lastOp.selection.to
  /\ \E i, j \in Idx(indicators) :
       /\ indicators[i].outdated /\ indicators[i].end = lastOp.selection.from
       /\ ~indicators[j].outdated
       /\ indicators[j].start = lastOp.selection.from

\* C5: after every reconcile pass no stored annotation, active or outdated,
\* has start >= end, start < 1 or end > the new document size.
C5_NoInvalidAfterReconcile ==
  lastOp.op = "apply" =>
    \A i \in Idx(indicators) :
      /\ indicators[i].start < indicators[i].end
      /\ indicators[i].start >= 1
      /\ indicators[i].end <= docSize

\* a reconcile pass changed a collection and left it empty: every annotation
\* it held was invalidated
C5_Witness ==
  /\ lastOp.op = "apply"
  /\ event.fired
  /\ indicators = <<>>

\* C6: an outdated annotation is outdated or absent in every later state, and
\* an annotation that left the collection never comes back.
C6_OutdatedIsFinal ==
  [][ /\ \A i \in Idx(indicators), j \in Idx(indicators') :
           (indicators[i].uid = indicators'[j].uid /\ indicators[i].outdated)
             => indicators'[j].outdated
      /\ \A j \in Idx(indicators') :
           indicators'[j].uid < nextUid
             => indicators'[j].uid \in Uids(indicators) ]_vars

\* an outdated annotation survived a re-submission made after another
\* annotation had left the collection
C6_Witness ==
  /\ lastOp.op = "setBiasIndicators"
  /\ Len(indicators) = 1
  /\ indicators[1].outdated
  /\ nextUid = 3

\* C7: reconcile keeps an outdated annotation whose span is still valid, every
\* notification carries the outdated annotations of the collection, and no
\* decoration is drawn for an outdated annotation.
C7_OutdatedKeptNotDrawn ==
  [][ /\ lastOp'.op = "apply" =>
           \A i \in Idx(indicators) :
             (/\ indicators[i].outdated
              /\ ~Invalid(Remapped(indicators[i], lastOp'.edit), docSize'))
               => \E j \in Idx(indicators') :
                    /\ indicators'[j].uid = indicators[i].uid
                    /\ indicators'[j].outdated
      /\ event'.fired =>
           \A j \in Idx(indicators') :
             indicators'[j].outdated
               => \E k \in Idx(event'.indicators) :
                    event'.indicators[k] = indicators'[j]
      /\ \A d \in Idx(decorationSet'), j \in Idx(indicators') :
           decorationSet'[d].uid = indicators'[j].uid
             => ~indicators'[j].outdated ]_vars

\* after an edit the collection holds an outdated and an active annotation
\* and only the active one is drawn
C7_Witness ==
  /\ lastOp.op = "apply"
  /\ event.fired
  /\ Len(indicators) = 2
  /\ Len(decorationSet) = 1
  /\ \E i \in Idx(indicators) : indicators[i].outdated
  /\ \E k \in Idx(event.indicators) : event.indicators[k].outdated

\* C8: reconcile leaves the collection as it is and emits no notification
\* when the edit's mapping leaves every span unchanged, no span is invalid
\* and the cursor lies inside only annotations that were already outdated.
C8_NoOpWhenNothingChanges ==
  [][ ( /\ lastOp'.op = "apply"
        /\ \A i \in Idx(indicators) :
             /\ Remapped(indicators[i], lastOp'.edit).start = indicators[i].start
             /\ Remapped(indicators[i], lastOp'.edit).end = indicators[i].end
             /\ ~Invalid(Remapped(indicators[i], lastOp'.edit), docSize')
             /\ CursorInside(Remapped(indicators[i], lastOp'.edit),
                             lastOp'.selection)
                  => indicators[i].outdated )
        => (indicators' = indicators /\ ~event'.fired) ]_vars

\* C9: every notification carries the collection exactly as it is stored
\* after the operation, and reconcile emits one exactly when the pass
\* changed the collection.
C9_NotifyIffChanged ==
  [][ /\ event'.fired => event'.indicators = indicators'
      /\ lastOp'.op = "apply" =>
           (event'.fired <=> indicators' # indicators) ]_vars

\* the i-th kept element of s, for keep a set of positions of s
Nth(keep, j) == CHOOSE i \in keep : Cardinality({k \in keep : k < i}) = j - 1
Kept(s, keep) == [j \in 1..Cardinality(keep) |-> s[Nth(keep, j)]]
Contains(ind, position) == ind.start <= position /\ position <= ind.end

\* C10 (as claimed): removeAtDocumentPosition removes exactly the active
\* annotations with start <= position <= end and leaves all others, outdated
\* ones at that position included, in place and in order.
C10_RemovesActiveOnly ==
  [][ lastOp'.op = "removeBiasIndicatorAtPosition" =>
        indicators' =
          Kept(indicators,
               {i \in Idx(indicators) :
                  ~(~indicators[i].outdated
                      /\ Contains(indicators[i], lastOp'.position))}) ]_vars

\* C10 (amended): removeAtDocumentPosition removes exactly the annotations,
\* active or outdated, with start <= position <= end and leaves all others
\* in place and in order.
C10_RemovesAllAtPosition ==
  [][ lastOp'.op = "removeBiasIndicatorAtPosition" =>
        indicators' =
          Kept(indicators,
               {i \in Idx(indicators) :
                  ~Contains(indicators[i], lastOp'.position)}) ]_vars

\* a removal at a position took an annotation out and left behind one whose
\* span does not contain the position
C10_Witness ==
  /\ lastOp.op = "removeBiasIndicatorAtPosition"
  /\ event.fired
  /\ Len(indicators) = 1
  /\ ~Contains(indicators[1], lastOp.position)

\* C11: removeAtDocumentPosition returns true and emits a notification
\* exactly when it removed an annotation; when no span contains the position
\* it returns false, emits nothing and leaves the collection as it is.
C11_TrueIffRemoved ==
  [][ lastOp'.op = "removeBiasIndicatorAtPosition" =>
        LET found == \E i \in Idx(indicators) :
                       Contains(indicators[i], lastOp'.position)
        IN /\ ret' = found
           /\ event'.fired = found
           /\ found <=> Len(indicators') < Len(indicators)
           /\ ~found => indicators' = indicators ]_vars

\* a removal at a position that no span of a non-empty collection contains
C11_Witness ==
  /\ lastOp.op = "removeBiasIndicatorAtPosition"
  /\ ret = FALSE
  /\ ~event.fired
  /\ indicators # <<>>

\* C12: removeAt(index) with index < 0 or index >= the collection's length
\* returns false, emits no notification and leaves the collection and the
\* decorations as they are.
C12_OutOfRangeIsNoOp ==
  [][ ( /\ lastOp'.op = "removeBiasIndicator"
        /\ (lastOp'.index < 0 \/ lastOp'.index >= Len(indicators)) )
        => /\ ret' = FALSE
           /\ ~event'.fired
           /\ indicators' = indicators
           /\ decorationSet' = decorationSet ]_vars

\* removeAt was called with index = length on a non-empty collection
C12_Witness ==
  /\ lastOp.op = "removeBiasIndicator"
  /\ lastOp.index = Len(indicators)
  /\ indicators # <<>>
  /\ ret = FALSE

\* C13: removeAt(index) with a valid index removes exactly the annotation at
\* that place, returns true and emits a notification; every other annotation
\* stays as it is, in the same relative order.
C13_RemovesExactlyOne ==
  [][ ( /\ lastOp'.op = "removeBiasIndicator"
        /\ lastOp'.index >= 0 /\ lastOp'.index < Len(indicators) )
        => /\ indicators' =
                Kept(indicators, Idx(indicators) \ {lastOp'.index + 1})
           /\ ret' = TRUE
           /\ event' = CustomEvent(indicators') ]_vars

\* removeAt(0) took the first annotation out and left the second
C13_Witness ==
  /\ lastOp.op = "removeBiasIndicator"
  /\ lastOp.index = 0
  /\ ret = TRUE
  /\ Len(indicators) = 1

\* the collection a set or clear call of SetCalls writes
IsSet(c) == c.function \in {"setBiasIndicators", "setLexiconTerms"}
IsBias(c) == c.function \in {"setBiasIndicators", "clearBiasIndicators"}
\* the place in the stored collection of the i-th submitted candidate, which
\* the call made the annotation first + i - 1
PlaceOf(stored, first, i) ==
  CHOOSE k \in Idx(stored) : stored[k].uid = first + i - 1
\* candidate i comes before candidate j in the order by span end, ties in
\* input order
EndsBefore(cands, i, j) ==
  cands[i].end < cands[j].end \/ (cands[i].end = cands[j].end /\ i < j)
StoredByEnd(stored, cands, first) ==
  \A i, j \in Idx(cands) :
    EndsBefore(cands, i, j)
      => PlaceOf(stored, first, i) < PlaceOf(stored, first, j)
NumberedByEnd(stored, cands, first) ==
  \A i, j \in Idx(cands) :
    (/\ cands[i].displayIndex = 0 /\ cands[j].displayIndex = 0
     /\ EndsBefore(cands, i, j))
      => stored[PlaceOf(stored, first, i)].displayIndex
           < stored[PlaceOf(stored, first, j)].displayIndex
StoredInInputOrder(stored, cands, first) ==
  \A i \in Idx(cands) : PlaceOf(stored, first, i) = i
NumberedInInputOrder(stored, cands, first) ==
  \A i, j \in Idx(cands) :
    (cands[i].displayIndex = 0 /\ cands[j].displayIndex = 0 /\ i < j)
      => stored[i].displayIndex < stored[j].displayIndex

\* C14 (as claimed): setAnnotations of either category stores the candidates
\* sorted by submitted span end, ties in input order, and numbers the
\* candidates that come without a display index in that order.
C14_SortedByEndEitherCategory ==
  [][ IsSet(call) =>
        LET stored == IF IsBias(call) THEN indicators' ELSE terms'
        IN /\ StoredByEnd(stored, call.candidates, nextUid)
           /\ NumberedByEnd(stored, call.candidates, nextUid) ]_vars

\* C14 (amended): setAnnotations of the bias category stores the candidates
\* sorted by submitted span end, ties in input order, and numbers the
\* candidates that come without a display index in that order; of the
\* lexicon category it stores and numbers them in input order.
C14_SortedByEndBiasOnly ==
  [][ /\ call.function = "setBiasIndicators" =>
           /\ StoredByEnd(indicators', call.candidates, nextUid)
           /\ NumberedByEnd(indicators', call.candidates, nextUid)
      /\ call.function = "setLexiconTerms" =>
           /\ StoredInInputOrder(terms', call.candidates, nextUid)
           /\ NumberedInInputOrder(terms', call.candidates, nextUid) ]_vars

\* two bias candidates without a display index were submitted with the later
\* end first, and are stored with the earlier end first, numbered 1 and 2
C14_Witness ==
  /\ call.function = "setBiasIndicators"
  /\ result.returned
  /\ Len(call.candidates) = 2
  /\ call.candidates[1].end > call.candidates[2].end
  /\ call.candidates[1].displayIndex = 0
  /\ call.candidates[2].displayIndex = 0
  /\ indicators[1].uid > indicators[2].uid
  /\ indicators[1].displayIndex = 1
  /\ indicators[2].displayIndex = 2

Normalised(stored, cand) ==
  /\ stored.start = cand.start + 1
  /\ stored.end = Max(cand.end + 1, stored.start + 1)
  /\ 1 <= stored.start
  /\ stored.start < stored.end
AsSubmitted(stored, cand) ==
  stored.start = cand.start /\ stored.end = cand.end

\* C15: with normalizePositions a candidate with start >= 0 is stored with
\* start' = start + 1 and end' = max(end + 1, start' + 1), so that
\* 1 <= start' < end'; without it every span is stored as submitted.  (The
\* lexicon command has no such parameter and always normalises.)
C15_NormalisedSpans ==
  [][ IsSet(call) =>
        LET stored == IF IsBias(call) THEN indicators' ELSE terms'
            normalize == IF IsBias(call) THEN call.normalize ELSE TRUE
        IN \A i \in Idx(call.candidates) :
             LET a == stored[PlaceOf(stored, nextUid, i)]
             IN IF normalize THEN Normalised(a, call.candidates[i])
                ELSE AsSubmitted(a, call.candidates[i]) ]_vars

\* a bias candidate {start 1, end 0} was submitted with normalisation and is
\* stored as {start 2, end 3}
C15_Witness ==
  /\ call.function = "setBiasIndicators"
  /\ result.returned
  /\ call.normalize
  /\ Len(call.candidates) = 1
  /\ call.candidates[1].start = 1 /\ call.candidates[1].end = 0
  /\ indicators[1].start = 2 /\ indicators[1].end = 3

\* C16: setAnnotations leaves in the collection exactly one annotation per
\* submitted candidate and none of those stored before, and emits one
\* notification carrying the new collection; clear leaves the collection
\* empty and emits a notification, also when it was empty before.
C16_ReplacesWholeCollection ==
  [][ LET stored == IF IsBias(call) THEN indicators' ELSE terms'
          emitted == IF IsBias(call) THEN event' ELSE lexiconEvent'
      IN /\ IsSet(call) =>
              /\ Len(stored) = Len(call.candidates)
              /\ Uids(stored) = nextUid..(nextUid + Len(call.candidates) - 1)
              /\ emitted = CustomEvent(stored)
         /\ ~IsSet(call) =>
              /\ stored = <<>>
              /\ emitted = CustomEvent(<<>>) ]_vars

\* a bias collection that held one annotation holds, after a set command
\* with two candidates, these two and not the first
C16_Witness ==
  /\ call.function = "setBiasIndicators"
  /\ result.returned
  /\ nextUid = 4
  /\ Uids(indicators) = {2, 3}
  /\ event.fired

\* a returned call of limitIndicatorsByKey: its input, its output, the keys
\* it is to limit, and the candidates of one key in a list
Limited == call.function = "limitIndicatorsByKey" /\ result.returned
KeysGiven ==
  call.keysToLimit.defined /\ call.keysToLimit.keys # <<>>
Present(list) == {list[i].bias_indicator_key : i \in Idx(list)}
LimitedKeys ==
  IF KeysGiven
  THEN {call.keysToLimit.keys[i] : i \in Idx(call.keysToLimit.keys)}
  ELSE Present(call.indicators)
OfKey(list, k) == SelectSeq(list, LAMBDA x : x.bias_indicator_key = k)
\* the place in the input of an element of the output: its payload
InputPlace(x) == x.detected_phrase

C19_FirstMaxPerKeyKept ==
  (Limited /\ call.maxPerKey >= 0) =>
    \A k \in Keys :
      LET given == OfKey(call.indicators, k)
          kept == OfKey(result.value, k)
          n == IF call.maxPerKey <= Len(given) THEN call.maxPerKey
               ELSE Len(given)
      IN IF k \in LimitedKeys
         THEN kept = SubSeq(given, 1, n)
         ELSE kept = given

\* with maxPerKey = 0 and one key named, the candidates of that key are all
\* dropped and those of another key all kept
C19_Witness ==
  /\ Limited
  /\ KeysGiven
  /\ call.maxPerKey = 0
  /\ \E i \in Idx(call.indicators) :
       call.indicators[i].bias_indicator_key \in LimitedKeys
  /\ Len(result.value) = 2
  /\ \A p \in Idx(result.value) :
       result.value[p].bias_indicator_key \notin LimitedKeys

\* C20: when keysToLimit is undefined or empty, every key present in the
\* input is limited: the output holds of each key min(maxPerKey, count)
\* candidates, so of no key more than maxPerKey.
C20_NoKeysLimitsAllKeys ==
  (Limited /\ ~KeysGiven) =>
    \A k \in Present(call.indicators) :
      LET given == Len(OfKey(call.indicators, k))
          kept == Len(OfKey(result.value, k))
      IN /\ kept <= call.maxPerKey
         /\ kept = (IF call.maxPerKey <= given THEN call.maxPerKey ELSE given)

\* an empty keysToLimit, two keys in the input, one of them with more than
\* maxPerKey candidates, of which maxPerKey are kept
C20_Witness ==
  /\ Limited
  /\ call.keysToLimit = Array(<<>>)
  /\ call.maxPerKey = 1
  /\ Cardinality(Present(call.indicators)) = 2
  /\ Len(call.indicators) = 3
  /\ Len(result.value) = 2

LimitedTwice == Limited /\ "again" \in DOMAIN result

Located == call.function = "findPhrasePositions" /\ result.returned
\* text[start:end]
Slice(text, start, end) == SubSeq(text, start + 1, end)
\* the offsets at which the phrase stands in the text, up to case, with no
\* word character right before it and none right after it
Occurrences(text, phrase) ==
  {at \in 0..(Len(text) - Len(phrase)) :
     /\ toLowerCase(Slice(text, at, at + Len(phrase))) = toLowerCase(phrase)
     /\ (at > 0 => text[at] \notin WordChars)
     /\ (at + Len(phrase) < Len(text)
           => text[at + Len(phrase) + 1] \notin WordChars)}
Starts(spans) == {spans[i].start : i \in Idx(spans)}
InOrderNoOverlap(spans) ==
  \A i, j \in Idx(spans) :
    i < j => (spans[i].start < spans[j].start /\ spans[i].end <= spans[j].start)

\* C25: for a non-empty phrase every span findPhrasePositions returns lies
\* in the text, text[start:end] equals the phrase up to case, and neither
\* the character right before start nor the one right after end, where
\* there is one, is a word character.
C25_SpansMatchAtWordBoundaries ==
  (Located /\ call.phrase # <<>>) =>
    \A i \in Idx(result.value) :
      LET span == result.value[i]
      IN /\ 0 <= span.start
         /\ span.start < span.end
         /\ span.end <= Len(call.text)
         /\ toLowerCase(Slice(call.text, span.start, span.end))
              = toLowerCase(call.phrase)
         /\ (span.start > 0 => call.text[span.start] \notin WordChars)
         /\ (span.end < Len(call.text)
               => call.text[span.end + 1] \notin WordChars)

\* "a" found as "A" between two non-word characters, and not inside "aa"
C25_Witness ==
  /\ Located
  /\ call.phrase = <<"a">>
  /\ call.text = <<"a", "a", "!", "A">>
  /\ result.value = <<[start |-> 3, end |-> 4]>>

\* C26 (as claimed): for a phrase that is not blank findPhrasePositions
\* returns every boundary-respecting occurrence, in strictly increasing
\* order of start and without overlap.
C26_EveryOccurrenceReturned ==
  (Located /\ ~isBlank(call.phrase)) =>
    /\ Starts(result.value) = Occurrences(call.text, call.phrase)
    /\ InOrderNoOverlap(result.value)

\* C26 (amended): the spans returned are boundary-respecting occurrences,
\* in strictly increasing order of start and without overlap, and the only
\* occurrences left out are those that begin inside a returned span that
\* begins before them; a repeat enclosed in a word yields nothing.
C26_LeftmostNonOverlapping ==
  (Located /\ ~isBlank(call.phrase)) =>
    /\ Starts(result.value) \subseteq Occurrences(call.text, call.phrase)
    /\ InOrderNoOverlap(result.value)
    /\ \A at \in Occurrences(call.text, call.phrase) :
         \/ at \in Starts(result.value)
         \/ \E i \in Idx(result.value) :
              result.value[i].start < at /\ at < result.value[i].end
    /\ Len(result.value) = Cardinality(Starts(result.value))

\* "!!" in "!!!": the occurrence at 0 is returned, the one at 1, which
\* begins inside it, is not
C26_Witness ==
  /\ Located
  /\ call.phrase = <<"!", "!">>
  /\ call.text = <<"!", "!", "!">>
  /\ result.value = <<[start |-> 0, end |-> 2]>>
  /\ 1 \in Occurrences(call.text, call.phrase)

\* C27: for an empty phrase, a phrase of whitespace only, and an empty text
\* findPhrasePositions returns the empty list, whatever the other argument.
C27_BlankPhraseOrEmptyTextFindsNothing ==
  (Located /\ (isBlank(call.phrase) \/ call.text = <<>>)) =>
    result.value = <<>>

\* a phrase of one space, which stands in the text between two non-word
\* characters, is not reported
C27_Witness ==
  /\ Located
  /\ call.phrase = <<" ">>
  /\ call.text = <<"!", " ", "!">>
  /\ 1 \in Occurrences(call.text, call.phrase)
  /\ result.value = <<>>

Positioned == call.function = "addCharacterPositions" /\ result.returned
\* the candidates up to place i that arrive without a span and carry the
\* phrase of the i-th candidate, up to case
SamePhraseBefore(list, i) ==
  {j \in 1..i :
     /\ ~hasPositions(list[j])
     /\ toLowerCase(list[j].detected_phrase)
          = toLowerCase(list[i].detected_phrase)}
Matches(text, ind) == findPhrasePositions(text, ind.detected_phrase)

\* C22: the i-th candidate, among those that arrive without a span, of a
\* phrase (up to case, whatever the category keys) with k >= 1 matches
\* receives match number min(i, k).
C22_OccurrenceByRunningCount ==
  Positioned =>
    \A i \in Idx(call.indicators) :
      LET ind == call.indicators[i]
          found == Matches(call.text, ind)
          nth == Cardinality(SamePhraseBefore(call.indicators, i))
      IN (~hasPositions(ind) /\ Len(found) >= 1) =>
           result.value[i].character_positions
             = found[IF nth <= Len(found) THEN nth ELSE Len(found)]

\* C23: a candidate that arrives with a span leaves with that span, and the
\* other candidates receive the spans they receive when the candidates
\* with a span are taken out of the list.
C23_GivenSpanKeptAndNotCounted ==
  Positioned =>
    LET withSpan == {i \in Idx(call.indicators) :
                       hasPositions(call.indicators[i])}
        without == Idx(call.indicators) \ withSpan
    IN /\ \A i \in withSpan :
            result.value[i].character_positions
              = call.indicators[i].character_positions
       /\ SelectIdx(result.value, without, 1)
            = addCharacterPositions(SelectIdx(call.indicators, without, 1),
                                    call.text)

\* "a" twice in the text; a candidate with a span outside the text stands
\* between two candidates without one, which receive the first and the
\* second occurrence
C23_Witness ==
  /\ Positioned
  /\ call.text = <<"a", " ", "a">>
  /\ Len(call.indicators) = 3
  /\ ~hasPositions(call.indicators[1])
  /\ hasPositions(call.indicators[2])
  /\ call.indicators[2].detected_phrase = <<"a">>
  /\ ~hasPositions(call.indicators[3])
  /\ result.value[1].character_positions = [start |-> 0, end |-> 1]
  /\ result.value[2].character_positions = [start |-> 7, end |-> 9]
  /\ result.value[3].character_positions = [start |-> 2, end |-> 3]

\* C24: the output has the length of the input and holds at each place the
\* candidate of that place with a character_positions property; a
\* candidate without a span whose phrase has no match receives
\* [0, max(1, phraseLength)).
C24_NothingDroppedFallbackSpan ==
  Positioned =>
    /\ Len(result.value) = Len(call.indicators)
    /\ \A i \in Idx(call.indicators) :
         LET ind == call.indicators[i]
             out == result.value[i]
             length == Len(ind.detected_phrase)
         IN /\ DOMAIN out = DOMAIN ind \cup {"character_positions"}
            /\ \A f \in DOMAIN ind \ {"character_positions"} : out[f] = ind[f]
            /\ (~hasPositions(ind) /\ Matches(call.text, ind) = <<>>) =>
                 out.character_positions
                   = [start |-> 0, end |-> IF length >= 1 THEN length ELSE 1]

\* an empty phrase and a phrase of two characters that the text does not
\* hold as a word, next to a phrase that is found
C24_Witness ==
  /\ Positioned
  /\ call.text = <<"a", " ", "a">>
  /\ Len(call.indicators) = 3
  /\ call.indicators[1].detected_phrase = <<>>
  /\ call.indicators[2].detected_phrase = <<"a", "a">>
  /\ call.indicators[3].detected_phrase = <<"A">>
  /\ ~hasPositions(call.indicators[3])
  /\ result.value[1].character_positions = [start |-> 0, end |-> 1]
  /\ result.value[2].character_positions = [start |-> 0, end |-> 2]
  /\ result.value[3].character_positions = [start |-> 0, end |-> 1]

Filtered == call.function = "filterIndicatorsInText" /\ result.returned
FilteredAndPositioned == Filtered /\ "positioned" \in DOMAIN result
\* the phrase stands somewhere in the text, up to case
OccursAnywhere(text, phrase) ==
  \E at \in 0..(Len(text) - Len(phrase)) :
    \A j \in 1..Len(phrase) :
      toLowerCase(<<text[at + j]>>) = toLowerCase(<<phrase[j]>>)
SpansOf(positions) == {positions[i] : i \in Idx(positions)}

\* C28: of the candidates that pass filterIndicatorsInText, each one
\* without a span receives from addCharacterPositions the span of an
\* occurrence that findPhrasePositions finds, never the fallback span.
C28_NoFallbackAfterFilter ==
  FilteredAndPositioned =>
    \A i \in Idx(result.value) :
      ~hasPositions(result.value[i]) =>
        result.positioned[i].character_positions
          \in SpansOf(Matches(call.text, result.value[i]))

\* C29: filterIndicatorsInText keeps a candidate exactly when it carries
\* character positions, or its phrase is not blank and stands somewhere in
\* the text up to case; the kept candidates are those of the input,
\* unchanged and in the order of the input.
C29_KeptIffSpanOrSubstring ==
  Filtered =>
    /\ \A i \in Idx(call.indicators) :
         LET ind == call.indicators[i]
         IN (\E p \in Idx(result.value) : result.value[p] = ind)
              <=> \/ hasPositions(ind)
                  \/ /\ ~isBlank(ind.detected_phrase)
                     /\ OccursAnywhere(call.text, ind.detected_phrase)
    /\ \A p \in Idx(result.value) :
         /\ result.value[p].confidence \in Idx(call.indicators)
         /\ result.value[p] = call.indicators[result.value[p].confidence]
    /\ \A p, q \in Idx(result.value) :
         p < q => result.value[p].confidence < result.value[q].confidence

\* "A" is kept because the text holds it inside the word "aa"; the
\* candidate before it, a phrase of one space that the text holds too, is
\* dropped
C29_Witness ==
  /\ Filtered
  /\ call.text = <<"a", "a", " ">>
  /\ Len(call.indicators) = 2
  /\ call.indicators[1].detected_phrase = <<" ">>
  /\ call.indicators[2].detected_phrase = <<"A">>
  /\ Matches(call.text, call.indicators[2]) = <<>>
  /\ result.value = <<call.indicators[2]>>

Analysed ==
  /\ call.function \in {"analyzeBiasIndicators", "analyzeLLMIndicators"}
  /\ result.returned

\* C31: every transaction that changes the document remaps the span of every
\* annotation that is still stored after it with that edit's mapping, also
\* when the transaction carries a set, clear or remove command
C31_EveryEditRemapsSurvivors ==
  [][("edit" \in DOMAIN lastOp') =>
       \A i \in 1..Len(indicators), j \in 1..Len(indicators') :
         indicators[i].uid = indicators'[j].uid =>
           /\ indicators'[j].start = MapPos(indicators[i].start, 1, lastOp'.edit)
           /\ indicators'[j].end = MapPos(indicators[i].end, 1, lastOp'.edit)]_vars


\* C30: the candidates receive their spans before the limiter caps them:
\* every candidate a pipeline returns carries the span that
\* addCharacterPositions gives it in the list the backend answered with,
\* whatever the limiter dropped and however it ordered its output.
C30_SpansAssignedBeforeLimit ==
  Analysed =>
    \A p \in Idx(result.value) :
      result.value[p].character_positions
        = addCharacterPositions(call.rawData, call.text)
            [result.value[p].confidence].character_positions

BiasCommands ==
  {"setBiasIndicators", "clearBiasIndicators", "removeBiasIndicator",
   "removeBiasIndicatorAtPosition"}
LexiconCommands ==
  {"setLexiconTerms", "clearLexiconTerms", "removeLexiconTerm",
   "removeLexiconTermAtPosition"}
\* after is before with every span remapped by e and the annotations whose
\* remapped span is invalid in a document of that size left out
Reconciled(before, after, e, size) ==
  \A i \in Idx(before) :
    LET span == Remapped(before[i], e)
    IN IF Invalid(span, size)
       THEN before[i].uid \notin Uids(after)
       ELSE \E j \in Idx(after) :
              /\ after[j].uid = before[i].uid
              /\ after[j].start = span.start
              /\ after[j].end = span.end

Reconciling == call.function = "apply" /\ result.returned

\* after holds before as one pass in the order remap, outdate, invalidate
\* leaves it for the edit e, the selection sel and the new document size
InOrder(before, after, e, sel, size) ==
  \A i \in Idx(before) :
    LET span == Remapped(before[i], e)
    IN IF Invalid(span, size)
       THEN before[i].uid \notin Uids(after)
       ELSE \E j \in Idx(after) :
              /\ after[j].uid = before[i].uid
              /\ after[j].start = span.start
              /\ after[j].end = span.end
              /\ after[j].outdated
                   = (before[i].outdated \/ CursorInside(span, sel))

\* C32: reconcile remaps, then outdates, then invalidates: an annotation is
\* outdated after the pass exactly when it was before or the cursor of the
\* post-edit selection lies inside its remapped span, and an annotation whose
\* remapped span is degenerate or out of bounds is gone, cursor inside or not.
C32_RemapOutdateInvalidate ==
  Reconciling =>
    /\ InOrder(call.indicators, indicators, lastOp.edit, lastOp.selection,
               docSize)
    /\ InOrder(call.terms, terms, lastOp.edit, lastOp.selection, docSize)

\* the cursor lay inside an indicator that began before position 1 and inside
\* a term that reached beyond the document: the pass removed both
C32_Witness ==
  /\ Reconciling
  /\ \E i \in Idx(call.indicators) :
       LET span == Remapped(call.indicators[i], lastOp.edit)
       IN /\ span.start < 1
          /\ CursorInside(span, lastOp.selection)
          /\ call.indicators[i].uid \notin Uids(indicators)
  /\ \E i \in Idx(call.terms) :
       LET span == Remapped(call.terms[i], lastOp.edit)
       IN /\ span.end > docSize
          /\ CursorInside(span, lastOp.selection)
          /\ call.terms[i].uid \notin Uids(terms)

\* after is the annotations of before that are still stored, in the order
\* of before, each with its payload and display index and with start and end
\* mapped by e
SurvivorsRemapped(before, after, e) ==
  LET survivors ==
        SelectIdx(before, {i \in Idx(before) : before[i].uid \in Uids(after)}, 1)
  IN /\ Len(after) = Len(survivors)
     /\ \A k \in Idx(survivors) :
          /\ after[k].uid = survivors[k].uid
          /\ after[k].displayIndex = survivors[k].displayIndex
          /\ after[k].start = MapPos(survivors[k].start, 1, e)
          /\ after[k].end = MapPos(survivors[k].end, 1, e)

\* C33: every annotation that survives a reconcile pass, outdated ones
\* included, has the span (m(start), m(end)) of the edit's mapping m, start
\* and end mapped independently, and its payload and display index as before;
\* the survivors are in the order they had.
C33_SurvivorsRemappedInOrder ==
  Reconciling =>
    /\ SurvivorsRemapped(call.indicators, indicators, lastOp.edit)
    /\ SurvivorsRemapped(call.terms, terms, lastOp.edit)

\* a deletion shortened an indicator that was already outdated (its start
\* stayed, its end moved) and removed the indicator stored before it
C33_Witness ==
  /\ Reconciling
  /\ Len(call.indicators) = 2
  /\ Len(indicators) = 1
  /\ indicators[1].uid = call.indicators[2].uid
  /\ call.indicators[2].outdated
  /\ indicators[1].start = call.indicators[2].start
  /\ indicators[1].end < call.indicators[2].end
  /\ indicators[1].displayIndex = 2

Marked == call.function = "handleMarkIndicatorOutdated"

UniqueDisplayIndex(inds) ==
  \A i, j \in Idx(inds) :
    inds[i].displayIndex = inds[j].displayIndex => i = j

\* no two candidates of the batch carry the same display index
CarriedDistinct(cands) ==
  \A i, j \in Idx(cands) :
    (cands[i].displayIndex # 0 /\ cands[i].displayIndex = cands[j].displayIndex)
      => i = j

\* C35: no two annotations of a stored collection share a display index,
\* also after a set command whose batch mixes candidates that carry a display
\* index (no two the same) with candidates that carry none.
C35_DisplayIndexUnique ==
  (result.returned /\ "candidates" \in DOMAIN call
     /\ CarriedDistinct(call.candidates))
    => UniqueDisplayIndex(indicators) /\ UniqueDisplayIndex(terms)

C37_NoEditWhileAnalysing ==
  [][analysis.running
       => (docSize' = docSize /\ "edit" \notin DOMAIN lastOp')]_vars

\* the stored annotations of category key
StoredOfKey(key) ==
  {i \in Idx(indicators) : indicators[i].uid.bias_indicator_key = key}

\* the keys capped for an analysis: the two the bias pipeline limits and
\* every key the LLM backend reported
CappedKeys ==
  {"sarcasm", "passiveVoice"}
    \cup {call.llmRawData[i].bias_indicator_key : i \in Idx(call.llmRawData)}

\* C38: after the results of an analysis are applied the stored bias
\* collection holds at most PerKeyLimit annotations of each capped key.
C38_StoredWithinCap ==
  (call.function = "handleAnalyze" /\ result.returned)
    => \A key \in CappedKeys : Cardinality(StoredOfKey(key)) <= PerKeyLimit

====
